---- MODULE Spec2Model ----
(***************************************************************************)
(* Handwriting synthesis helper of BatchArtPro                             *)
(* (src/backend/handwriting_helper.py): the lazily created Hand instance,  *)
(* generate_handwriting_svg and generate_handwriting_svg_simple, as a      *)
(* state machine of calls running on threads of one process.               *)
(*                                                                         *)
(* The template, session, history, WooCommerce and design endpoints of     *)
(* src/backend/server.py are modelled further down, as requests of clients *)
(* whose handlers run one awaited database call at a time.                 *)
(*                                                                         *)
(* A text line is a sequence of one-character strings.  Coordinates are    *)
(* held in quarter units (Unit = 4), so that the 1.5 scale of the offsets  *)
(* and the halving of the centring step are exact in the integers.         *)
(***************************************************************************)
EXTENDS Integers, Sequences, FiniteSets, TLC

VARIABLES
    hand_instance,  \* the module-level _hand_instance (None, or the id of a Hand)
    hands,          \* how many times Hand() has been constructed in this process
    frame,          \* per thread: the locals of its running call
    calls,          \* per thread: how many calls it has started
    stroke,         \* one stroke on its way through the decoder and the denoiser
    db,             \* the collections of the MongoDB database of server.py, and its clock
    req             \* per client: the request it has in flight at the server

vars == <<hand_instance, hands, frame, calls, stroke, db, req>>

----------------------------------------------------------------------------
(* Bounds of the model *)

MaxLines == 3          \* most lines in one request
MaxTextLen == 4        \* most characters of the text given to the simple entry point
MaxCallsPerThread == 2 \* calls one thread makes, one after the other
MaxPoints == 4         \* most pen samples of a stroke given to the decoder
MaxRequests == 2       \* requests one client sends to the template endpoints
MaxLogins == 1         \* sessions the authentication service hands out
MaxSaves == 52         \* history entries saved in all
MaxOtherSaves == 1     \* history entries saved for the second template
NumThreads == 2        \* threads of the concurrent specification

----------------------------------------------------------------------------
(* Program constants *)

MaxLineLength == 75
LineHeight == 60
DefaultBias == 75      \* 0.75, in hundredths
DefaultStyle == 9
DefaultColor == "black"
DefaultWidth == 2
DefaultViewWidth == 1000
Unit == 4
SESSION_EXPIRY_DAYS == 7
HistoryLimit == 50

----------------------------------------------------------------------------
(* Sequences *)

Min(S) == CHOOSE x \in S : \A y \in S : x <= y
Max(S) == CHOOSE x \in S : \A y \in S : x >= y

Take(s, n) == SubSeq(s, 1, Min({n, Len(s)}))

Repeat(x, n) == [i \in 1..n |-> x]

RECURSIVE SeqsUpTo(_, _)
SeqsUpTo(S, n) ==
    IF n = 0 THEN {<<>>}
    ELSE LET shorter == SeqsUpTo(S, n - 1)
         IN  shorter \cup {Append(s, x) : s \in {q \in shorter : Len(q) = n - 1}, x \in S}

----------------------------------------------------------------------------
(* The handwriting library's alphabet (drawing.alphabet): the letters the  *)
(* model was trained on; it has no Q, X or Z and no "~".                    *)

alphabet ==
    {" ", "a", "b", "d", "e", "l", "o", "r", "H", "W"}

----------------------------------------------------------------------------
(* Validation: lines 62-69 *)

NoError == [kind |-> "none", line_num |-> -1, length |-> 0, char |-> ""]

FirstInvalid(line) ==
    LET i == Min({j \in 1..Len(line) : line[j] \notin alphabet}) IN line[i]

HasInvalidChar(line) == \E j \in 1..Len(line) : line[j] \notin alphabet

\* A validation that forgets the length check
ValidateLineNoLength(line, line_num) ==
    IF HasInvalidChar(line)
    THEN [kind |-> "char", line_num |-> line_num, length |-> 0, char |-> FirstInvalid(line)]
    ELSE NoError

\* A validation that looks at the characters before the length
ValidateLineCharFirst(line, line_num) ==
    IF HasInvalidChar(line)
    THEN [kind |-> "char", line_num |-> line_num, length |-> 0, char |-> FirstInvalid(line)]
    ELSE IF Len(line) > MaxLineLength
    THEN [kind |-> "length", line_num |-> line_num, length |-> Len(line), char |-> ""]
    ELSE NoError

\* The body of the loop over enumerate(lines): what it raises for one line
ValidateLine(line, line_num) ==
    IF Len(line) > MaxLineLength
    THEN [kind |-> "length", line_num |-> line_num, length |-> Len(line), char |-> ""]
    ELSE IF HasInvalidChar(line)
    THEN [kind |-> "char", line_num |-> line_num, length |-> 0, char |-> FirstInvalid(line)]
    ELSE NoError

RECURSIVE ValidateFrom(_, _)
ValidateFrom(lines, n) ==
    IF n > Len(lines) THEN NoError
    ELSE LET e == ValidateLine(lines[n], n - 1)
         IN  IF e # NoError THEN e ELSE ValidateFrom(lines, n + 1)

\* A validation loop that stops after the first line
ValidateFirstLineOnly(lines) ==
    IF lines = <<>> THEN NoError ELSE ValidateLine(lines[1], 0)

\* The error the validation loop raises, NoError when it raises none
Validate(lines) == ValidateFrom(lines, 1)

----------------------------------------------------------------------------
(* generate_handwriting_svg_simple, line 140:                              *)
(*   [line.strip() for line in text.split('\n') if line.strip()]           *)

Whitespace == {" ", "\t", "\r"}

RECURSIVE Split(_)
Split(text) ==
    IF \A i \in 1..Len(text) : text[i] # "\n" THEN <<text>>
    ELSE LET i == Min({j \in 1..Len(text) : text[j] = "\n"})
         IN  <<SubSeq(text, 1, i - 1)>> \o Split(SubSeq(text, i + 1, Len(text)))

Strip(line) ==
    LET ink == {j \in 1..Len(line) : line[j] \notin Whitespace}
    IN  IF ink = {} THEN <<>> ELSE SubSeq(line, Min(ink), Max(ink))

RECURSIVE StripNonBlank(_)
StripNonBlank(pieces) ==
    IF pieces = <<>> THEN <<>>
    ELSE LET line == Strip(Head(pieces))
         IN  (IF line # <<>> THEN <<line>> ELSE <<>>) \o StripNonBlank(Tail(pieces))

\* A split that keeps the blank lines of the text
SimpleLinesKeepBlank(text) == [i \in 1..Len(Split(text)) |-> Strip(Split(text)[i])]

SimpleLines(text) == StripNonBlank(Split(text))

----------------------------------------------------------------------------
(* The sampling collaborator, hand._sample(lines, biases, styles): one     *)
(* stroke of (dx, dy, endOfStroke) offsets per line, in the order of the   *)
(* lines.  The strokes of this table have a level baseline (their          *)
(* best-fit slope is zero).                                                *)

PenSample(line, i) ==
    <<2, 0, IF i = Len(line) \/ line[i] = " " THEN 1 ELSE 0>>

StrokeOf(line) ==
    CASE line = <<"H", "e", "l", "l", "o">> ->
            << <<2, 0, 0>>, <<2, 0, 0>>, <<2, 2, 1>>, <<2, -2, 0>>, <<2, 0, 1>> >>
      [] line = <<"W", "o", "r", "l", "d">> ->
            << <<2, 0, 0>>, <<2, -2, 0>>, <<2, 2, 1>>, <<2, -2, 0>>, <<2, 2, 1>> >>
      [] OTHER -> [i \in 1..Len(line) |-> PenSample(line, i)]

Sample(lines, biases, styles) == [i \in 1..Len(lines) |-> StrokeOf(lines[i])]

----------------------------------------------------------------------------
(* Stroke decoder, denoiser and aligner of the handwriting library         *)
(* (drawing.offsets_to_coords, drawing.denoise, drawing.align)             *)

\* a scale applied to the dx column alone
ScaleOffsetsXOnly(offsets) ==
    [i \in 1..Len(offsets) |->
        <<(offsets[i][1] * 3 * Unit) \div 2, offsets[i][2] * Unit, offsets[i][3]>>]

\* offsets[:, :2] *= 1.5, in quarter units
ScaleOffsets(offsets) ==
    [i \in 1..Len(offsets) |->
        <<(offsets[i][1] * 3 * Unit) \div 2, (offsets[i][2] * 3 * Unit) \div 2, offsets[i][3]>>]

RECURSIVE SumTo(_, _, _)
SumTo(offsets, col, i) == IF i = 0 THEN 0 ELSE SumTo(offsets, col, i - 1) + offsets[i][col]

\* running sum of (dx, dy); the endOfStroke flags pass through
offsets_to_coords(offsets) ==
    [i \in 1..Len(offsets) |-> <<SumTo(offsets, 1, i), SumTo(offsets, 2, i), offsets[i][3]>>]

Square(n) == n * n

\* squared diagonal of the bounding box of the points with indices in I
Diag2(coords, I) ==
    IF I = {} THEN 0
    ELSE Square(Max({coords[i][1] : i \in I}) - Min({coords[i][1] : i \in I}))
       + Square(Max({coords[i][2] : i \in I}) - Min({coords[i][2] : i \in I}))

\* the segment of point i: the maximal run of points between two pen lifts
SegmentOf(coords, i) ==
    {j \in 1..Len(coords) :
        \A k \in Min({i, j})..(Max({i, j}) - 1) : coords[k][3] # 1}

DenoiseRatio == 8

\* a small segment dropped wherever it lies in the stroke
DroppedAlsoAtEnds(coords, i) ==
    Diag2(coords, SegmentOf(coords, i)) * Square(DenoiseRatio)
        < Diag2(coords, 1..Len(coords))

\* a segment is dropped when its diagonal is below 1/DenoiseRatio of the stroke's
\* and it holds neither the first nor the last point
Dropped(coords, i) ==
    LET seg == SegmentOf(coords, i)
    IN  /\ 1 \notin seg
        /\ Len(coords) \notin seg
        /\ Diag2(coords, seg) * Square(DenoiseRatio) < Diag2(coords, 1..Len(coords))

RECURSIVE KeepFrom(_, _)
KeepFrom(coords, i) ==
    IF i > Len(coords) THEN <<>>
    ELSE (IF Dropped(coords, i) THEN <<>> ELSE <<coords[i]>>) \o KeepFrom(coords, i + 1)

denoise(coords) == KeepFrom(coords, 1)

\* rotation by the negative of the best-fit angle: the angle is zero for the level
\* strokes of StrokeOf
align(coords) == coords

----------------------------------------------------------------------------
(* generate_handwriting_svg: layout of one line, lines 91-98 *)

\* a cursor that starts at the nominal top
InitialCoordAtTop == <<0, 0>>

\* initial_coord = np.array([0, -(3 * line_height / 4)]), in quarter units
InitialCoord == <<0, -((3 * LineHeight * Unit) \div 4)>>

\* stroke_data[:, 1] *= -1
FlipY(coords) == [i \in 1..Len(coords) |-> <<coords[i][1], -coords[i][2], coords[i][3]>>]

\* stroke_data[:, :2].min(): the least of all the x and all the y values
MinOfBoth(coords) ==
    Min({coords[i][1] : i \in 1..Len(coords)} \cup {coords[i][2] : i \in 1..Len(coords)})

\* stroke_data[:, :2] -= stroke_data[:, :2].min() + initial_coord
Translate(coords, initial_coord) ==
    LET m == MinOfBoth(coords)
    IN  [i \in 1..Len(coords) |->
            <<coords[i][1] - (m + initial_coord[1]),
              coords[i][2] - (m + initial_coord[2]),
              coords[i][3]>>]

\* stroke_data[:, 0] += (view_width - stroke_data[:, 0].max()) / 2
Centre(coords, view_width) ==
    LET shift == (view_width * Unit - Max({coords[i][1] : i \in 1..Len(coords)})) \div 2
    IN  [i \in 1..Len(coords) |-> <<coords[i][1] + shift, coords[i][2], coords[i][3]>>]

\* lines 91-98: the laid-out points of one non-empty line
LayOut(offsets, initial_coord, view_width) ==
    Centre(Translate(FlipY(align(denoise(offsets_to_coords(ScaleOffsets(offsets))))),
                     initial_coord),
           view_width)

----------------------------------------------------------------------------
(* Path serializer, lines 100-104: the path string as its commands *)

\* a command chosen from the point's own flag
PathCommandOwnFlag(coords, i) ==
    <<IF coords[i][3] = 1 THEN "M" ELSE "L", coords[i][1], coords[i][2]>>

\* prev_eos = 1.0 at the start; 'M' if prev_eos == 1.0 else 'L'; prev_eos = eos
PathCommand(coords, i) ==
    LET prev_eos == IF i = 1 THEN 1 ELSE coords[i - 1][3]
    IN  <<IF prev_eos = 1 THEN "M" ELSE "L", coords[i][1], coords[i][2]>>

\* a path that starts at its first point
PathStringNoOrigin(coords) == [i \in 1..Len(coords) |-> PathCommand(coords, i)]

\* p = "M0,0 " followed by one command per point
PathString(coords) ==
    << <<"M", 0, 0>> >> \o [i \in 1..Len(coords) |-> PathCommand(coords, i)]

\* lines 110-114: the descriptor appended to paths_data
PathDescriptor(p, color, width) == [path |-> p, color |-> color, width |-> width]

\* lines 106-108: the path element added to the drawing
SvgPath(p, color, width) ==
    [d |-> p, stroke |-> color, stroke_width |-> width, linecap |-> "round", fill |-> "none"]

\* A height counted from the lines that have ink
ViewHeightOfInk(strokes) ==
    LineHeight * (Cardinality({i \in 1..Len(strokes) : strokes[i] # <<>>}) + 1)

\* line 76: view_height = line_height * (len(strokes) + 1)
ViewHeight(strokes) == LineHeight * (Len(strokes) + 1)

\* the default whatever the caller passed
OrDefaultAlways(list, default, num_lines) == Repeat(default, num_lines)

\* lines 57-60: x or [default] * num_lines
OrDefault(list, default, num_lines) == IF list # <<>> THEN list ELSE Repeat(default, num_lines)

\* line 86: zip stops at the shortest of its arguments
ZipLen(strokes, lines, stroke_colors, stroke_widths) ==
    Min({Len(strokes), Len(lines), Len(stroke_colors), Len(stroke_widths)})

----------------------------------------------------------------------------
(* Results *)

NoSvg == [width |-> 0, height |-> 0, elements |-> <<>>]

NoResult ==
    [status |-> "none", error |-> NoError, svg |-> NoSvg, width |-> 0, height |-> 0,
     paths |-> <<>>]

Raised(e) == [NoResult EXCEPT !.status = "error", !.error = e]

EmptyText == [kind |-> "empty", line_num |-> -1, length |-> 0, char |-> ""]
EmptyStroke == [kind |-> "numpy", line_num |-> -1, length |-> 0, char |-> ""]

----------------------------------------------------------------------------
(* Requests the callers make *)

Blank == <<>>
Hello == <<"H", "e", "l", "l", "o">>
World == <<"W", "o", "r", "l", "d">>
Invalid == <<"a", "~", "Q">>
Full75 == [i \in 1..MaxLineLength |-> "a"]
Long76 == [i \in 1..(MaxLineLength + 1) |-> "a"]
Long76Invalid == [i \in 1..(MaxLineLength + 1) |-> IF i = 2 THEN "~" ELSE "a"]

LayoutLines == {Blank, Hello, World}
ValidationLines == {Blank, Hello, Invalid, Full75, Long76, Long76Invalid}
TextChars == {"a", " ", "\n"}

Palette == <<"red", "green", "blue", "cyan", "pink", "gray", "gold", "navy">>
ColorList(n) == Take(Palette, n)
WidthList(n) == [i \in 1..n |-> DefaultWidth + i]

\* the keyword arguments of generate_handwriting_svg that have a default
ListArgs == {"biases", "styles", "stroke_colors", "stroke_widths"}
FullArgs == ListArgs \cup {"view_width"}

\* a call of generate_handwriting_svg(lines, stroke_colors=..., stroke_widths=...);
\* given holds the names of the arguments the caller passes
FullRequest(lines, nc, nw) ==
    [entry |-> "full", text |-> <<>>, lines |-> lines, biases |-> <<>>, styles |-> <<>>,
     stroke_colors |-> ColorList(nc), stroke_widths |-> WidthList(nw),
     view_width |-> DefaultViewWidth,
     style |-> DefaultStyle, bias |-> DefaultBias, color |-> DefaultColor,
     width |-> DefaultWidth,
     given |-> {a \in {"stroke_colors"} : nc > 0} \cup {a \in {"stroke_widths"} : nw > 0}]

\* a call of generate_handwriting_svg that passes the arguments named in given, one
\* value per line in each list, and leaves the others out
GivenRequest(lines, given) ==
    [entry |-> "full", text |-> <<>>, lines |-> lines,
     biases |-> IF "biases" \in given THEN Repeat(50, Len(lines)) ELSE <<>>,
     styles |-> IF "styles" \in given THEN Repeat(3, Len(lines)) ELSE <<>>,
     stroke_colors |-> IF "stroke_colors" \in given THEN ColorList(Len(lines)) ELSE <<>>,
     stroke_widths |-> IF "stroke_widths" \in given THEN WidthList(Len(lines)) ELSE <<>>,
     view_width |-> IF "view_width" \in given THEN 800 ELSE DefaultViewWidth,
     style |-> DefaultStyle, bias |-> DefaultBias, color |-> DefaultColor,
     width |-> DefaultWidth, given |-> given]

\* a call of generate_handwriting_svg that passes the empty list for the arguments
\* named in given
EmptyListRequest(lines, given) ==
    [GivenRequest(lines, {}) EXCEPT !.given = given]

\* a call of generate_handwriting_svg_simple(text, style, bias, color, width)
SimpleRequest(text, styled) ==
    [entry |-> "simple", text |-> text, lines |-> <<>>, biases |-> <<>>, styles |-> <<>>,
     stroke_colors |-> <<>>, stroke_widths |-> <<>>, view_width |-> DefaultViewWidth,
     style |-> IF styled THEN 3 ELSE DefaultStyle,
     bias |-> IF styled THEN 50 ELSE DefaultBias,
     color |-> IF styled THEN "red" ELSE DefaultColor,
     width |-> IF styled THEN 5 ELSE DefaultWidth,
     given |-> IF styled THEN {"style", "bias", "color", "width"} ELSE {}]

DefaultsLines == {<<Hello>>, <<Hello, Blank, World>>}

LayoutRequests ==
    {FullRequest(lines, nc, nw) :
        lines \in SeqsUpTo(LayoutLines, MaxLines), nc \in 0..(MaxLines + 1),
        nw \in 0..(MaxLines + 1)}
    \cup {SimpleRequest(text, styled) :
            text \in SeqsUpTo(TextChars, MaxTextLen), styled \in BOOLEAN}
    \cup {GivenRequest(lines, given) : lines \in DefaultsLines, given \in SUBSET FullArgs}
    \cup {EmptyListRequest(lines, given) :
            lines \in DefaultsLines, given \in {{a} : a \in ListArgs} \cup {ListArgs}}

ValidationRequests ==
    {FullRequest(lines, 0, 0) : lines \in SeqsUpTo(ValidationLines, MaxLines)}

ConcurrentRequests ==
    {FullRequest(<<Hello, Blank>>, 0, 0), FullRequest(<<World>>, 0, 0)}

----------------------------------------------------------------------------
(* State *)

\* no stroke is in the decoder
NoStroke ==
    [pc |-> "none", offsets |-> <<>>, coords |-> <<>>, denoised |-> <<>>, again |-> <<>>]

\* the database before the first request: every collection is empty
\* (ids, tokens and clock count the uuids, the session tokens and the clock readings
\* drawn so far; created keeps the ids of the templates inserted so far, and log the
\* templateId of every history entry saved so far, in the order of the saving; day is
\* the date, in days; files holds the thumbnails written to UPLOAD_DIR)
EmptyDb ==
    [templates |-> {}, history |-> {}, users |-> {}, user_sessions |-> {},
     wc_sessions |-> {}, customer_designs |-> {}, files |-> {},
     WOOCOMMERCE_WEBHOOK_SECRET |-> "",
     ids |-> 0, tokens |-> 0, clock |-> 0, day |-> 0, created |-> {}, log |-> <<>>]

\* the list arguments as the caller passed them
NoArgs == [biases |-> <<>>, styles |-> <<>>, stroke_colors |-> <<>>, stroke_widths |-> <<>>]

\* the biases and styles handed to hand._sample
NoPassed == [biases |-> <<>>, styles |-> <<>>]

IdleFrame ==
    [pc |-> "idle", entry |-> "none", text |-> <<>>, lines |-> <<>>, biases |-> <<>>,
     styles |-> <<>>, stroke_colors |-> <<>>, stroke_widths |-> <<>>, view_width |-> 0,
     style |-> 0, bias |-> 0, color |-> "", width |-> 0, given |-> {}, args |-> NoArgs,
     passed |-> NoPassed,
     hand |-> 0, new_hand |-> 0, sampled |-> 0, strokes |-> <<>>, view_height |-> 0,
     initial_coord |-> <<0, 0>>, k |-> 0, paths_data |-> <<>>, dwg |-> NoSvg,
     result |-> NoResult]

InitOf(threads) ==
    /\ hand_instance = 0
    /\ hands = 0
    /\ frame = [t \in threads |-> IdleFrame]
    /\ calls = [t \in threads |-> 0]
    /\ stroke = NoStroke
    /\ db = EmptyDb
    /\ req = <<>>

\* the locals of thread t's call
Local(t) == frame[t]

Set(t, f) == frame' = [frame EXCEPT ![t] = f]

----------------------------------------------------------------------------
(* A caller starts a call *)

Call(t, requests, budget) ==
    /\ Local(t).pc = "idle"
    /\ calls[t] < budget
    /\ \E r \in requests :
          Set(t, [IdleFrame EXCEPT
                    !.pc = IF r.entry = "simple" THEN "split" ELSE "get_hand",
                    !.entry = r.entry, !.text = r.text, !.lines = r.lines,
                    !.biases = r.biases, !.styles = r.styles,
                    !.stroke_colors = r.stroke_colors, !.stroke_widths = r.stroke_widths,
                    !.view_width = r.view_width, !.style = r.style, !.bias = r.bias,
                    !.color = r.color, !.width = r.width, !.given = r.given,
                    !.args = [biases |-> r.biases, styles |-> r.styles,
                              stroke_colors |-> r.stroke_colors,
                              stroke_widths |-> r.stroke_widths]])
    /\ calls' = [calls EXCEPT ![t] = @ + 1]
    /\ UNCHANGED <<hand_instance, hands, stroke, db, req>>

\* generate_handwriting_svg_simple, lines 140-153
SimpleSplit(t) ==
    /\ Local(t).pc = "split"
    /\ LET lines == SimpleLines(Local(t).text)
           num_lines == Len(lines)
       IN  IF lines = <<>>
           THEN Set(t, [Local(t) EXCEPT !.pc = "done", !.result = Raised(EmptyText)])
           ELSE Set(t, [Local(t) EXCEPT
                          !.pc = "get_hand", !.lines = lines,
                          !.biases = Repeat(Local(t).bias, num_lines),
                          !.styles = Repeat(Local(t).style, num_lines),
                          !.stroke_colors = Repeat(Local(t).color, num_lines),
                          !.stroke_widths = Repeat(Local(t).width, num_lines)])
    /\ UNCHANGED <<hand_instance, hands, calls, stroke, db, req>>

----------------------------------------------------------------------------
(* get_hand, lines 21-27 *)

\* line 24: if _hand_instance is None
GetHandCheck(t) ==
    /\ Local(t).pc = "get_hand"
    /\ Set(t, [Local(t) EXCEPT
                 !.pc = IF hand_instance = 0 THEN "construct" ELSE "return_hand"])
    /\ UNCHANGED <<hand_instance, hands, calls, stroke, db, req>>

\* lines 25-26: Hand() is constructed
HandConstruct(t) ==
    /\ Local(t).pc = "construct"
    /\ hands' = hands + 1
    /\ Set(t, [Local(t) EXCEPT !.pc = "assign", !.new_hand = hands + 1])
    /\ UNCHANGED <<hand_instance, calls, stroke, db, req>>

\* line 26: _hand_instance = ...
HandAssign(t) ==
    /\ Local(t).pc = "assign"
    /\ hand_instance' = Local(t).new_hand
    /\ Set(t, [Local(t) EXCEPT !.pc = "return_hand", !.new_hand = 0])
    /\ UNCHANGED <<hands, calls, stroke, db, req>>

\* line 27 and line 53: hand = get_hand()
HandReturn(t) ==
    /\ Local(t).pc = "return_hand"
    /\ Set(t, [Local(t) EXCEPT !.pc = "validate", !.hand = hand_instance])
    /\ UNCHANGED <<hand_instance, hands, calls, stroke, db, req>>

----------------------------------------------------------------------------
(* generate_handwriting_svg, lines 55-121 *)

\* lines 56-69: the defaults, then the validation loop
ValidateStep(t) ==
    /\ Local(t).pc = "validate"
    /\ LET f == Local(t)
           num_lines == Len(f.lines)
           e == Validate(f.lines)
           g == [f EXCEPT
                   !.biases = OrDefault(f.biases, DefaultBias, num_lines),
                   !.styles = OrDefault(f.styles, DefaultStyle, num_lines),
                   !.stroke_colors = OrDefault(f.stroke_colors, DefaultColor, num_lines),
                   !.stroke_widths = OrDefault(f.stroke_widths, DefaultWidth, num_lines)]
       IN  IF e # NoError
           THEN Set(t, [g EXCEPT !.pc = "done", !.result = Raised(e)])
           ELSE Set(t, [g EXCEPT !.pc = "sample"])
    /\ UNCHANGED <<hand_instance, hands, calls, stroke, db, req>>

\* lines 72-85, with the strokes the collaborator returned
Sampled(t, strokes) ==
    Set(t, [Local(t) EXCEPT
              !.pc = "layout", !.sampled = @ + 1, !.strokes = strokes,
              !.passed = [biases |-> Local(t).biases, styles |-> Local(t).styles],
              !.view_height = ViewHeight(strokes),
              !.dwg = [width |-> Local(t).view_width, height |-> ViewHeight(strokes),
                       elements |-> <<>>],
              !.paths_data = <<>>, !.initial_coord = InitialCoord, !.k = 0])

\* line 72: strokes = hand._sample(lines, biases=biases, styles=styles)
SampleStep(t) ==
    /\ Local(t).pc = "sample"
    /\ Sampled(t, Sample(Local(t).lines, Local(t).biases, Local(t).styles))
    /\ UNCHANGED <<hand_instance, hands, calls, stroke, db, req>>

\* what a collaborator that breaks its contract may return: too few strokes, or one
\* too many
MismatchedStrokes(lines) ==
    {Take(Sample(lines, <<>>, <<>>), n) : n \in 0..(Len(lines) - 1)}
    \cup {Append(Sample(lines, <<>>, <<>>), StrokeOf(Hello))}

ModelError == [kind |-> "model", line_num |-> -1, length |-> 0, char |-> ""]

\* line 72, the collaborator returning a number of strokes that is not len(lines)
SampleMismatch(t) ==
    /\ Local(t).pc = "sample"
    /\ \E strokes \in MismatchedStrokes(Local(t).lines) : Sampled(t, strokes)
    /\ UNCHANGED <<hand_instance, hands, calls, stroke, db, req>>

\* line 72, the collaborator raising
SampleRaises(t) ==
    /\ Local(t).pc = "sample"
    /\ Set(t, [Local(t) EXCEPT !.pc = "done", !.sampled = @ + 1,
                               !.result = Raised(ModelError)])
    /\ UNCHANGED <<hand_instance, hands, calls, stroke, db, req>>

\* a cursor kept in one place for all the calls of the process
CursorOfFirstThread(t) == frame[Min(DOMAIN frame)].initial_coord

\* line 85: initial_coord is a local of the call
Cursor(t) == Local(t).initial_coord

\* line 88 and line 116: initial_coord[1] -= line_height
Advance(initial_coord) == <<initial_coord[1], initial_coord[2] - LineHeight * Unit>>

\* an empty line skipped without moving the cursor
LayoutBlankNoAdvance(t) ==
    /\ Local(t).pc = "layout"
    /\ LET f == Local(t)
       IN  /\ f.k < ZipLen(f.strokes, f.lines, f.stroke_colors, f.stroke_widths)
           /\ f.lines[f.k + 1] = <<>>
           /\ Set(t, [f EXCEPT !.k = @ + 1])
    /\ UNCHANGED <<hand_instance, hands, calls, stroke, db, req>>

\* lines 86-89: the next tuple of the zip, for an empty line
LayoutBlank(t) ==
    /\ Local(t).pc = "layout"
    /\ LET f == Local(t)
       IN  /\ f.k < ZipLen(f.strokes, f.lines, f.stroke_colors, f.stroke_widths)
           /\ f.lines[f.k + 1] = <<>>
           /\ Set(t, [f EXCEPT !.k = @ + 1, !.initial_coord = Advance(Cursor(t))])
    /\ UNCHANGED <<hand_instance, hands, calls, stroke, db, req>>

\* lines 86-116: the next tuple of the zip, for a line with text
LayoutInk(t) ==
    /\ Local(t).pc = "layout"
    /\ LET f == Local(t)
           i == f.k + 1
       IN  /\ f.k < ZipLen(f.strokes, f.lines, f.stroke_colors, f.stroke_widths)
           /\ f.lines[i] # <<>>
           /\ IF f.strokes[i] = <<>>
              THEN Set(t, [f EXCEPT !.pc = "done", !.result = Raised(EmptyStroke)])
              ELSE LET stroke_data == LayOut(f.strokes[i], Cursor(t), f.view_width)
                       path == PathString(stroke_data)
                       color == f.stroke_colors[i]
                       width == f.stroke_widths[i]
                   IN  Set(t, [f EXCEPT
                                 !.k = i,
                                 !.dwg.elements = Append(@, SvgPath(path, color, width)),
                                 !.paths_data = Append(@, PathDescriptor(path, color, width)),
                                 !.initial_coord = Advance(Cursor(t))])
    /\ UNCHANGED <<hand_instance, hands, calls, stroke, db, req>>

\* lines 119-121 (and lines 155-160 of the simple entry point)
ReturnResult(t) ==
    /\ Local(t).pc = "layout"
    /\ LET f == Local(t)
       IN  /\ f.k = ZipLen(f.strokes, f.lines, f.stroke_colors, f.stroke_widths)
           /\ Set(t, [f EXCEPT
                        !.pc = "done",
                        !.result = [status |-> "ok", error |-> NoError, svg |-> f.dwg,
                                    width |-> f.view_width, height |-> f.view_height,
                                    paths |-> f.paths_data]])
    /\ UNCHANGED <<hand_instance, hands, calls, stroke, db, req>>

\* the caller takes the result; the thread is free for its next call
Finish(t) ==
    /\ Local(t).pc = "done"
    /\ calls[t] < MaxCallsPerThread
    /\ Set(t, IdleFrame)
    /\ UNCHANGED <<hand_instance, hands, calls, stroke, db, req>>

----------------------------------------------------------------------------
(* Specifications *)

OneThread == {1}
AllThreads == 1..NumThreads

\* one thread, the requests that exercise the layout, a collaborator that keeps its
\* contract
Init == InitOf(OneThread)
Next ==
    \E t \in OneThread :
        \/ Call(t, LayoutRequests, MaxCallsPerThread)
        \/ SimpleSplit(t)
        \/ GetHandCheck(t)
        \/ HandConstruct(t)
        \/ HandAssign(t)
        \/ HandReturn(t)
        \/ ValidateStep(t)
        \/ SampleStep(t)
        \/ LayoutBlank(t)
        \/ LayoutInk(t)
        \/ ReturnResult(t)
        \/ Finish(t)
Spec == Init /\ [][Next]_vars

\* one thread, the requests that exercise the validation
NextValidation ==
    \E t \in OneThread :
        \/ Call(t, ValidationRequests, MaxCallsPerThread)
        \/ GetHandCheck(t)
        \/ HandConstruct(t)
        \/ HandAssign(t)
        \/ HandReturn(t)
        \/ ValidateStep(t)
        \/ SampleStep(t)
        \/ LayoutBlank(t)
        \/ LayoutInk(t)
        \/ ReturnResult(t)
        \/ Finish(t)
SpecValidation == Init /\ [][NextValidation]_vars

\* one thread, a collaborator that may break its contract
NextFaulty ==
    \E t \in OneThread :
        \/ Call(t, LayoutRequests, MaxCallsPerThread)
        \/ SimpleSplit(t)
        \/ GetHandCheck(t)
        \/ HandConstruct(t)
        \/ HandAssign(t)
        \/ HandReturn(t)
        \/ ValidateStep(t)
        \/ SampleStep(t)
        \/ SampleMismatch(t)
        \/ SampleRaises(t)
        \/ LayoutBlank(t)
        \/ LayoutInk(t)
        \/ ReturnResult(t)
        \/ Finish(t)
SpecFaulty == Init /\ [][NextFaulty]_vars

\* several threads, each making one call, at once
InitConcurrent == InitOf(AllThreads)
NextConcurrent ==
    \E t \in AllThreads :
        \/ Call(t, ConcurrentRequests, 1)
        \/ GetHandCheck(t)
        \/ HandConstruct(t)
        \/ HandAssign(t)
        \/ HandReturn(t)
        \/ ValidateStep(t)
        \/ SampleStep(t)
        \/ LayoutBlank(t)
        \/ LayoutInk(t)
        \/ ReturnResult(t)
SpecConcurrent == InitConcurrent /\ [][NextConcurrent]_vars

----------------------------------------------------------------------------
(* What the properties speak of *)

Returned(t) == frame[t].pc = "done" /\ frame[t].result.status = "ok"
Rejected(t) == frame[t].pc = "done" /\ frame[t].result.status = "error"

TooLong(line) == Len(line) > MaxLineLength
OutOfAlphabet(line) == {line[j] : j \in 1..Len(line)} \ alphabet
Violating(lines) == {i \in 1..Len(lines) : TooLong(lines[i]) \/ OutOfAlphabet(lines[i]) # {}}

\* the indices of the lines that have text, in input order
RECURSIVE InkLinesFrom(_, _)
InkLinesFrom(lines, i) ==
    IF i > Len(lines) THEN <<>>
    ELSE (IF lines[i] # <<>> THEN <<i>> ELSE <<>>) \o InkLinesFrom(lines, i + 1)
InkLines(lines) == InkLinesFrom(lines, 1)

----------------------------------------------------------------------------
(* C1: for every accepted list of N >= 1 lines, whichever of them are      *)
(* blank, the returned canvas height is 60 * (N + 1).                      *)

C1_CanvasHeight ==
    \A t \in DOMAIN frame :
        (Returned(t) /\ Len(frame[t].lines) >= 1)
            => frame[t].result.height = 60 * (Len(frame[t].lines) + 1)

C1_Witness ==
    \E t \in DOMAIN frame :
        /\ Returned(t)
        /\ frame[t].lines = <<Hello, Blank, World>>
        /\ frame[t].result.height = 240

----------------------------------------------------------------------------
(* C2: a blank line never appends a path descriptor and always moves the   *)
(* vertical cursor by exactly one line height, as a line with text does;   *)
(* ["Hello", "", "World"] yields height 240 and exactly 2 paths.           *)

\* the first k lines have been laid out
LaidOut(t, k) == frame[t].pc = "layout" /\ frame[t].k = k

InkAmong(lines, k) == Cardinality({i \in 1..k : lines[i] # <<>>})

C2_BlankLines ==
    \A t \in DOMAIN frame :
        /\ frame[t].pc = "layout" =>
              /\ Len(frame[t].paths_data) = InkAmong(frame[t].lines, frame[t].k)
              /\ frame[t].initial_coord[2]
                    = InitialCoord[2] - frame[t].k * (60 * Unit)
        /\ (Returned(t) /\ frame[t].lines = <<Hello, Blank, World>>
                /\ frame[t].stroke_colors = Repeat(DefaultColor, 3)
                /\ frame[t].stroke_widths = Repeat(DefaultWidth, 3)) =>
              /\ frame[t].result.height = 240
              /\ Len(frame[t].result.paths) = 2

C2_Witness ==
    \E t \in DOMAIN frame :
        /\ LaidOut(t, 2)
        /\ frame[t].lines = <<Hello, Blank, World>>
        /\ Len(frame[t].paths_data) = 1
        /\ frame[t].initial_coord[2] = InitialCoord[2] - 2 * (60 * Unit)

----------------------------------------------------------------------------
(* C3: whatever lengths stroke_colors and stroke_widths have, an accepted  *)
(* request returns one descriptor per non-empty line, in input order, each *)
(* carrying its line's color and width as fields of their own.             *)

PathOnlyGeometry(p) ==
    \A j \in 1..Len(p) : p[j][1] \in {"M", "L"} /\ p[j][2] \in Int /\ p[j][3] \in Int

C3_OneDescriptorPerLine ==
    \A t \in DOMAIN frame :
        Returned(t) =>
            LET f == frame[t]
                ink == InkLines(f.lines)
            IN  /\ Len(f.result.paths) = Len(ink)
                /\ \A j \in 1..Len(ink) :
                      /\ j <= Len(f.result.paths)
                      /\ ink[j] <= Len(f.stroke_colors)
                      /\ ink[j] <= Len(f.stroke_widths)
                      /\ f.result.paths[j].color = f.stroke_colors[ink[j]]
                      /\ f.result.paths[j].width = f.stroke_widths[ink[j]]
                      /\ PathOnlyGeometry(f.result.paths[j].path)

----------------------------------------------------------------------------
(* C4: Hand() is constructed at most once per process under every          *)
(* interleaving of the calls that race on first use, and all the callers   *)
(* receive the same instance.                                              *)

C4_HandCreatedOnce ==
    /\ hands <= 1
    /\ \A t, u \in DOMAIN frame :
          (frame[t].hand # 0 /\ frame[u].hand # 0) => frame[t].hand = frame[u].hand

----------------------------------------------------------------------------
(* C5: every request with a line longer than 75 characters is rejected     *)
(* with an error naming that line's index and length; a line of exactly 75 *)
(* allowed characters is not rejected for length.                          *)

NamesLongLine(e, lines) ==
    /\ e.kind = "length"
    /\ e.line_num + 1 \in 1..Len(lines)
    /\ TooLong(lines[e.line_num + 1])
    /\ e.length = Len(lines[e.line_num + 1])

NotRejectedForLength75(t) ==
    \A i \in 1..Len(frame[t].lines) :
        (Len(frame[t].lines[i]) = MaxLineLength /\ OutOfAlphabet(frame[t].lines[i]) = {})
            => ~(frame[t].result.error.kind = "length"
                    /\ frame[t].result.error.line_num = i - 1)

\* the claim as stated: the error names a line that is too long
C5_LongLineNamed ==
    \A t \in DOMAIN frame :
        frame[t].pc = "done" =>
            /\ (\E i \in 1..Len(frame[t].lines) : TooLong(frame[t].lines[i]))
                  => (Rejected(t) /\ NamesLongLine(frame[t].result.error, frame[t].lines))
            /\ NotRejectedForLength75(t)

\* C5 as amended: the request is rejected, and the error names the long line when
\* that line is the first line of the request that breaks a rule
C5_LongLineRejected ==
    \A t \in DOMAIN frame :
        frame[t].pc = "done" =>
            LET lines == frame[t].lines
                e == frame[t].result.error
            IN  /\ (\E i \in 1..Len(lines) : TooLong(lines[i])) => Rejected(t)
                /\ \A i \in 1..Len(lines) :
                      (TooLong(lines[i]) /\ i = Min(Violating(lines)))
                          => (e.kind = "length" /\ e.line_num = i - 1
                                /\ e.length = Len(lines[i]))
                /\ NotRejectedForLength75(t)

C5_Witness ==
    \E t \in DOMAIN frame :
        /\ Rejected(t)
        /\ frame[t].lines = <<Full75, Long76>>
        /\ frame[t].result.error
              = [kind |-> "length", line_num |-> 1, length |-> 76, char |-> ""]

----------------------------------------------------------------------------
(* C6: every request with a character outside the alphabet is rejected     *)
(* with an error naming the offending character and the index of its line; *)
(* when several lines break a rule, the error is the one for the first     *)
(* such line in input order.                                               *)

\* the claim as stated, the error being that of the first violating line
C6_InvalidCharNamed ==
    \A t \in DOMAIN frame :
        frame[t].pc = "done" =>
            LET lines == frame[t].lines
                e == frame[t].result.error
            IN  (\E i \in 1..Len(lines) : OutOfAlphabet(lines[i]) # {}) =>
                    /\ Rejected(t)
                    /\ e.line_num = Min(Violating(lines)) - 1
                    /\ OutOfAlphabet(lines[Min(Violating(lines))]) # {}
                          => (e.kind = "char"
                                /\ e.char \in OutOfAlphabet(lines[Min(Violating(lines))]))

\* C6 as amended: the error is the one for the first violating line; it names that
\* line's first offending character unless the line is longer than 75 characters,
\* which is reported instead
C6_FirstViolationReported ==
    \A t \in DOMAIN frame :
        frame[t].pc = "done" =>
            LET lines == frame[t].lines
                e == frame[t].result.error
            IN  Violating(lines) # {} =>
                    LET i == Min(Violating(lines))
                        bad == {j \in 1..Len(lines[i]) : lines[i][j] \notin alphabet}
                    IN  /\ Rejected(t)
                        /\ e.line_num = i - 1
                        /\ TooLong(lines[i])
                              => (e.kind = "length" /\ e.length = Len(lines[i]))
                        /\ ~TooLong(lines[i])
                              => (e.kind = "char" /\ e.char = lines[i][Min(bad)])

C6_Witness ==
    \E t \in DOMAIN frame :
        /\ Rejected(t)
        /\ frame[t].lines = <<Hello, Invalid, Long76>>
        /\ frame[t].result.error
              = [kind |-> "char", line_num |-> 1, length |-> 0, char |-> "~"]

----------------------------------------------------------------------------
(* C7: a request that fails validation never invokes the model's sample    *)
(* function and returns no partial result.                                 *)

C7_NoSampleBeforeValid ==
    \A t \in DOMAIN frame :
        /\ frame[t].sampled > 0 => Violating(frame[t].lines) = {}
        /\ (frame[t].pc = "done" /\ Violating(frame[t].lines) # {}) =>
              /\ Rejected(t)
              /\ frame[t].sampled = 0
              /\ frame[t].strokes = <<>>
              /\ frame[t].paths_data = <<>> /\ frame[t].dwg = NoSvg
              /\ frame[t].result.paths = <<>> /\ frame[t].result.svg = NoSvg

C7_Witness ==
    \E t \in DOMAIN frame :
        /\ Rejected(t)
        /\ frame[t].lines = <<Hello, Invalid>>
        /\ frame[t].hand # 0
        /\ frame[t].sampled = 0

----------------------------------------------------------------------------
(* C8: a request with zero non-blank lines fails with an error instead of  *)
(* returning a result, at both entry points.                               *)

C8_EmptyInputFails ==
    \A t \in DOMAIN frame :
        (frame[t].pc = "done" /\ InkLines(frame[t].lines) = <<>>) => Rejected(t)

----------------------------------------------------------------------------
(* C9: when sample returns a number of strokes that differs from the       *)
(* number of lines, the call surfaces an error; it returns no result with  *)
(* lines dropped or a height computed from the wrong count.                *)

C9_MismatchSurfaced ==
    \A t \in DOMAIN frame :
        (frame[t].pc = "done" /\ frame[t].sampled > 0
            /\ Len(frame[t].strokes) # Len(frame[t].lines)) => Rejected(t)

----------------------------------------------------------------------------
(* C10: two calls with different inputs that run concurrently, sharing     *)
(* only the model instance, each return exactly the result the same call   *)
(* returns when run alone.                                                 *)

\* the cursor a call running alone has when it lays out its i-th line
CursorAlone(i) == <<0, -45 * Unit - (i - 1) * 60 * Unit>>

RECURSIVE PathsAlone(_, _, _, _, _, _)
PathsAlone(strokes, lines, colors, widths, view_width, n) ==
    IF n = 0 THEN <<>>
    ELSE LET before == PathsAlone(strokes, lines, colors, widths, view_width, n - 1)
         IN  IF lines[n] = <<>> THEN before
             ELSE Append(before,
                         [path |-> PathString(LayOut(strokes[n], CursorAlone(n), view_width)),
                          color |-> colors[n], width |-> widths[n]])

\* the result of the call of frame f, computed in one piece from its arguments
ResultAlone(f) ==
    LET simple == f.entry = "simple"
        lines == IF simple THEN SimpleLines(f.text) ELSE f.lines
        n == Len(lines)
        colors == IF simple THEN Repeat(f.color, n)
                  ELSE OrDefault(f.stroke_colors, DefaultColor, n)
        widths == IF simple THEN Repeat(f.width, n)
                  ELSE OrDefault(f.stroke_widths, DefaultWidth, n)
        strokes == Sample(lines, <<>>, <<>>)
        paths == PathsAlone(strokes, lines, colors, widths, f.view_width,
                            Min({n, Len(colors), Len(widths)}))
    IN  IF simple /\ lines = <<>> THEN Raised(EmptyText)
        ELSE IF Violating(lines) # {} THEN Raised(Validate(lines))
        ELSE [status |-> "ok", error |-> NoError,
              svg |-> [width |-> f.view_width, height |-> 60 * (n + 1),
                       elements |-> [j \in 1..Len(paths) |->
                                        SvgPath(paths[j].path, paths[j].color,
                                                paths[j].width)]],
              width |-> f.view_width, height |-> 60 * (n + 1), paths |-> paths]

C10_ConcurrentAsAlone ==
    \A t \in DOMAIN frame :
        frame[t].pc = "done" => frame[t].result = ResultAlone(frame[t])

\* two calls with different inputs have both returned, after running at once
C10_Witness ==
    \E t, u \in DOMAIN frame :
        /\ t # u
        /\ Returned(t) /\ Returned(u)
        /\ frame[t].lines = <<Hello, Blank>> /\ frame[u].lines = <<World>>
        /\ frame[t].result.paths # frame[u].result.paths
        /\ frame[t].result.height = 180 /\ frame[u].result.height = 120

----------------------------------------------------------------------------
(* C11: every line with text is centred on its own: its leftmost point is  *)
(* as far from x = 0 as its rightmost point is from x = canvasWidth,       *)
(* whatever its y values and whatever the other lines.                     *)

\* the x values of the points of a path, the leading move to the origin left out
PointXs(path) == {path[n][2] : n \in 2..Len(path)}

LeftGap(path) == Min(PointXs(path))
RightGap(path, view_width) == view_width * Unit - Max(PointXs(path))

C11_Centred ==
    \A t \in DOMAIN frame :
        \A j \in 1..Len(frame[t].paths_data) :
            LeftGap(frame[t].paths_data[j].path)
                = RightGap(frame[t].paths_data[j].path, frame[t].view_width)

----------------------------------------------------------------------------
(* C12: the cursor starts at (0, -45) and, once the first k lines of the   *)
(* input have been processed, blank or not, its y is -45 - 60 * k; the     *)
(* line of 0-based index k is laid out with the cursor at -45 - 60 * k.    *)

CursorAfter(k) == <<0, (-45 - 60 * k) * Unit>>

\* the 1-based indices of the lines with text among the first k, in order
RECURSIVE InkIndices(_, _)
InkIndices(lines, k) ==
    IF k = 0 THEN <<>>
    ELSE IF lines[k] = <<>> THEN InkIndices(lines, k - 1)
    ELSE Append(InkIndices(lines, k - 1), k)

C12_CursorPerLine ==
    \A t \in DOMAIN frame :
        frame[t].pc = "layout" =>
            LET f == frame[t]
                ink == InkIndices(f.lines, f.k)
            IN  /\ f.initial_coord = CursorAfter(f.k)
                /\ Len(f.paths_data) = Len(ink)
                /\ \A j \in 1..Len(ink) :
                      f.paths_data[j].path
                          = PathString(LayOut(f.strokes[ink[j]], CursorAfter(ink[j] - 1),
                                              f.view_width))

\* a blank line and two lines with text are processed: the cursor is at -225 and the
\* third line was laid out with the cursor at -165
C12_Witness ==
    \E t \in DOMAIN frame :
        /\ LaidOut(t, 3)
        /\ frame[t].lines = <<Hello, Blank, World>>
        /\ frame[t].initial_coord = <<0, -225 * Unit>>
        /\ frame[t].paths_data[2].path
              = PathString(LayOut(frame[t].strokes[3], <<0, -165 * Unit>>,
                                  frame[t].view_width))
        /\ frame[t].paths_data[2].path
              # PathString(LayOut(frame[t].strokes[3], <<0, -105 * Unit>>,
                                  frame[t].view_width))

----------------------------------------------------------------------------
(* C13: the path of every processed line with at least one point starts    *)
(* with a move to (0,0), followed at once by a move, not a line, to the    *)
(* first real point.                                                       *)

\* the points the path of descriptor j of frame f was serialized from
PointsOf(f, j) ==
    LET i == InkIndices(f.lines, f.k)[j]
    IN  LayOut(f.strokes[i], CursorAfter(i - 1), f.view_width)

C13_StartsWithTwoMoves ==
    \A t \in DOMAIN frame :
        frame[t].pc = "layout" =>
            \A j \in 1..Len(frame[t].paths_data) :
                LET path == frame[t].paths_data[j].path
                    first == PointsOf(frame[t], j)[1]
                IN  /\ Len(path) >= 2
                    /\ path[1] = <<"M", 0, 0>>
                    /\ path[2] = <<"M", first[1], first[2]>>

\* a line whose first point does not end a stroke: its command is a move all the same
C13_Witness ==
    \E t \in DOMAIN frame :
        /\ frame[t].pc = "layout"
        /\ Len(frame[t].paths_data) >= 1
        /\ PointsOf(frame[t], 1)[1][3] = 0
        /\ frame[t].paths_data[1].path[2][1] = "M"
        /\ <<frame[t].paths_data[1].path[2][2], frame[t].paths_data[1].path[2][3]>>
              # <<0, 0>>

----------------------------------------------------------------------------
(* C14: for every point after the first, the command is a move exactly     *)
(* when the point before it ends a stroke, and a line otherwise; a point's *)
(* own flag never decides its command; the point commands are as many as   *)
(* the points and in their order.                                          *)

C14_CommandFromPreviousFlag ==
    \A t \in DOMAIN frame :
        frame[t].pc = "layout" =>
            \A j \in 1..Len(frame[t].paths_data) :
                LET path == frame[t].paths_data[j].path
                    pts == PointsOf(frame[t], j)
                IN  /\ Len(path) = Len(pts) + 1
                    /\ \A n \in 1..Len(pts) :
                          /\ path[n + 1][2] = pts[n][1]
                          /\ path[n + 1][3] = pts[n][2]
                          /\ n > 1 => (path[n + 1][1] = "M" <=> pts[n - 1][3] = 1)
                          /\ n > 1 => (path[n + 1][1] = "L" <=> pts[n - 1][3] # 1)

\* a point that ends a stroke is reached by a line, and the point after it, which
\* ends none, by a move
C14_Witness ==
    \E t \in DOMAIN frame :
        /\ frame[t].pc = "layout"
        /\ Len(frame[t].paths_data) >= 1
        /\ LET path == frame[t].paths_data[1].path
               pts == PointsOf(frame[t], 1)
           IN  \E n \in 2..(Len(pts) - 1) :
                  /\ pts[n][3] = 1 /\ path[n + 1][1] = "L"
                  /\ pts[n + 1][3] = 0 /\ path[n + 2][1] = "M"

----------------------------------------------------------------------------
(* C15: an argument the caller leaves out takes its default: bias 0.75 and *)
(* style 9 for every line passed to sample, color "black" and width 2 in   *)
(* every descriptor, canvas width 1000, line height 60; a value the caller *)
(* does pass is used unchanged.                                            *)

\* the call of thread t is past the defaults of lines 56-60 and was not rejected
PastDefaults(t) == frame[t].pc \in {"sample", "layout"} \/ Returned(t)

\* the four lists of frame f after lines 56-60
ListsOf(f) ==
    [biases |-> f.biases, styles |-> f.styles, stroke_colors |-> f.stroke_colors,
     stroke_widths |-> f.stroke_widths]

\* what the lists are when the caller passes none of them
AllDefaults(n) ==
    [biases |-> Repeat(75, n), styles |-> Repeat(9, n),
     stroke_colors |-> Repeat("black", n), stroke_widths |-> Repeat(2, n)]

\* what is common to the claim as stated and as amended: the arguments left out, the
\* simple entry point, and the use of the lists by sample and by the descriptors
DefaultsApplied(t) ==
    LET f == frame[t]
        n == Len(f.lines)
        ink == InkIndices(f.lines, f.k)
    IN  /\ f.entry = "full" =>
              /\ \A a \in ListArgs \ f.given : ListsOf(f)[a] = AllDefaults(n)[a]
              /\ "view_width" \in f.given => f.view_width = 800
              /\ "view_width" \notin f.given => f.view_width = 1000
        /\ f.entry = "simple" =>
              /\ f.biases = Repeat(IF "bias" \in f.given THEN 50 ELSE 75, n)
              /\ f.styles = Repeat(IF "style" \in f.given THEN 3 ELSE 9, n)
              /\ f.stroke_colors = Repeat(IF "color" \in f.given THEN "red" ELSE "black", n)
              /\ f.stroke_widths = Repeat(IF "width" \in f.given THEN 5 ELSE 2, n)
              /\ f.view_width = 1000
        /\ f.sampled > 0 =>
              /\ f.passed = [biases |-> f.biases, styles |-> f.styles]
              /\ f.view_height = 60 * (Len(f.strokes) + 1)
        /\ f.pc = "layout" =>
              \A j \in 1..Len(f.paths_data) :
                  /\ f.paths_data[j].color = f.stroke_colors[ink[j]]
                  /\ f.paths_data[j].width = f.stroke_widths[ink[j]]
        /\ Returned(t) => (f.result.width = f.view_width /\ f.result.height = f.view_height)

\* the claim as stated: every list the caller passes is used as passed
C15_GivenUsedUnchanged ==
    \A t \in DOMAIN frame :
        PastDefaults(t) =>
            /\ DefaultsApplied(t)
            /\ frame[t].entry = "full" =>
                  \A a \in ListArgs \cap frame[t].given :
                      ListsOf(frame[t])[a] = frame[t].args[a]

\* C15 as amended: a list the caller passes is used unchanged unless it is empty; an
\* empty list is treated as an argument left out and takes the default
C15_NonEmptyGivenUsedUnchanged ==
    \A t \in DOMAIN frame :
        PastDefaults(t) =>
            /\ DefaultsApplied(t)
            /\ frame[t].entry = "full" =>
                  \A a \in ListArgs \cap frame[t].given :
                      ListsOf(frame[t])[a]
                          = IF frame[t].args[a] # <<>> THEN frame[t].args[a]
                            ELSE AllDefaults(Len(frame[t].lines))[a]

\* a call that passes its own biases and colors and leaves the styles and widths out
\* has returned
C15_Witness ==
    \E t \in DOMAIN frame :
        /\ Returned(t)
        /\ frame[t].entry = "full"
        /\ frame[t].lines = <<Hello, Blank, World>>
        /\ frame[t].given = {"biases", "stroke_colors"}
        /\ frame[t].passed = [biases |-> <<50, 50, 50>>, styles |-> <<9, 9, 9>>]
        /\ frame[t].result.paths[2].color = "blue"
        /\ frame[t].result.paths[2].width = 2
        /\ frame[t].result.width = 1000
        /\ frame[t].result.height = 240

----------------------------------------------------------------------------
(* The decoder and the denoiser applied to one stroke, lines 91-93: the    *)
(* stroke is any sequence of at most MaxPoints pen samples                 *)

PenMoves == {<<8, 0>>, <<-8, 0>>, <<1, 1>>, <<-1, -1>>, <<0, 0>>}
PenSamples == {<<m[1], m[2], eos>> : m \in PenMoves, eos \in {0, 1}}
RawStrokes == SeqsUpTo(PenSamples, MaxPoints) \ {<<>>}

\* lines 91-92: offsets[:, :2] *= 1.5; strokes = drawing.offsets_to_coords(offsets)
Decode ==
    /\ stroke.pc = "raw"
    /\ stroke' = [stroke EXCEPT !.pc = "decoded",
                                !.coords = offsets_to_coords(ScaleOffsets(stroke.offsets))]
    /\ UNCHANGED <<hand_instance, hands, frame, calls, db, req>>

\* line 93: strokes = drawing.denoise(strokes)
Denoise ==
    /\ stroke.pc = "decoded"
    /\ stroke' = [stroke EXCEPT !.pc = "denoised", !.denoised = denoise(stroke.coords)]
    /\ UNCHANGED <<hand_instance, hands, frame, calls, db, req>>

\* drawing.denoise applied to its own output
DenoiseAgain ==
    /\ stroke.pc = "denoised"
    /\ stroke' = [stroke EXCEPT !.pc = "again", !.again = denoise(stroke.denoised)]
    /\ UNCHANGED <<hand_instance, hands, frame, calls, db, req>>

InitStroke ==
    /\ hand_instance = 0
    /\ hands = 0
    /\ frame = <<>>
    /\ calls = <<>>
    /\ stroke \in {[NoStroke EXCEPT !.pc = "raw", !.offsets = o] : o \in RawStrokes}
    /\ db = EmptyDb
    /\ req = <<>>

NextStroke ==
    \/ Decode
    \/ Denoise
    \/ DenoiseAgain
SpecStroke == InitStroke /\ [][NextStroke]_vars

----------------------------------------------------------------------------
(* C16: for a stroke whose raw offsets sum to zero, the differences        *)
(* between consecutive decoded points reproduce the original offsets       *)
(* exactly, and the endOfStroke flags of the decoded points equal the      *)
(* input flags index for index.                                            *)

Decoded == stroke.pc \in {"decoded", "denoised", "again"}

NetZero(offsets) ==
    SumTo(offsets, 1, Len(offsets)) = 0 /\ SumTo(offsets, 2, Len(offsets)) = 0

\* the difference between decoded point i and the one before it, column col; the
\* point before the first is the last one, which is the origin when the offsets sum
\* to zero
Difference(coords, col, i) ==
    coords[i][col] - coords[IF i = 1 THEN Len(coords) ELSE i - 1][col]

FlagsKept(offsets, coords) ==
    /\ Len(coords) = Len(offsets)
    /\ \A i \in 1..Len(offsets) : coords[i][3] = offsets[i][3]

\* the claim as stated: the differences are the raw offsets (here in quarter units)
C16_DifferencesAreRawOffsets ==
    (Decoded /\ NetZero(stroke.offsets)) =>
        /\ FlagsKept(stroke.offsets, stroke.coords)
        /\ \A i \in 1..Len(stroke.offsets) : \A col \in {1, 2} :
              Difference(stroke.coords, col, i) = stroke.offsets[i][col] * Unit

\* C16 as amended: the differences are the offsets as line 91 scales them, 1.5 times
\* the raw offsets; between points i-1 and i this holds of every stroke
C16_DifferencesAreScaledOffsets ==
    Decoded =>
        /\ FlagsKept(stroke.offsets, stroke.coords)
        /\ \A i \in 1..Len(stroke.offsets) : \A col \in {1, 2} :
              (i > 1 \/ NetZero(stroke.offsets)) =>
                  2 * Difference(stroke.coords, col, i) = 3 * stroke.offsets[i][col] * Unit

\* a stroke of three points or more, with pen lifts and moves that cancel, is decoded
C16_Witness ==
    /\ stroke.pc = "decoded"
    /\ NetZero(stroke.offsets)
    /\ Len(stroke.offsets) >= 3
    /\ \E i, j \in 1..Len(stroke.offsets) :
          /\ stroke.offsets[i][1] # 0 /\ stroke.offsets[i][2] # 0
          /\ stroke.offsets[i][3] = 1 /\ stroke.offsets[j][3] = 0
    /\ stroke.coords[Len(stroke.coords)][1] = 0
    /\ stroke.coords[Len(stroke.coords)][2] = 0

----------------------------------------------------------------------------
(* C17: denoise(denoise(s)) = denoise(s) for every stroke s; denoise drops *)
(* each segment whose bounding-box diagonal is below a fixed threshold     *)
(* relative to the scale of the whole stroke, and keeps the order of the   *)
(* points and the first and the last point.                                *)

\* point i lies in a segment that holds the first or the last point of the stroke
AtAnEnd(coords, i) ==
    1 \in SegmentOf(coords, i) \/ Len(coords) \in SegmentOf(coords, i)

\* the segment of point i is below the threshold
Small(coords, i) ==
    Square(DenoiseRatio) * Diag2(coords, SegmentOf(coords, i))
        < Diag2(coords, 1..Len(coords))

\* the points of coords with an index in I, in the order of coords
RECURSIVE PointsAt(_, _, _)
PointsAt(coords, I, n) ==
    IF n = 0 THEN <<>>
    ELSE IF n \in I THEN Append(PointsAt(coords, I, n - 1), coords[n])
    ELSE PointsAt(coords, I, n - 1)

C17_DenoiseIdempotent ==
    LET s == stroke.coords
        d == stroke.denoised
    IN  /\ stroke.pc \in {"denoised", "again"} =>
              /\ d = PointsAt(s, {i \in 1..Len(s) : AtAnEnd(s, i) \/ ~Small(s, i)}, Len(s))
              /\ d[1] = s[1]
              /\ d[Len(d)] = s[Len(s)]
        /\ stroke.pc = "again" => stroke.again = d

\* a stroke that lost a segment to the first pass goes through the second unchanged
C17_Witness ==
    /\ stroke.pc = "again"
    /\ Len(stroke.denoised) < Len(stroke.coords)
    /\ Len(stroke.denoised) >= 2
    /\ stroke.again = stroke.denoised

----------------------------------------------------------------------------
(* server.py: the requests of the clients.  A handler runs one step at a   *)
(* time, a step ending at each await of a database call, so the steps of   *)
(* two requests interleave.                                                *)

Clients == {1, 2}

\* JSON null, and a field of the request body that is not set; no name equals them
Null == "null"
Unset == "unset"

NoSession == [user_id |-> 0, session_token |-> 0, expires_at |-> 0]
NoUser == [user_id |-> 0, email |-> "", role |-> "", username |-> Unset]
NoWooSession == [id |-> 0, session_token |-> 0, product_id |-> 0, expiresAt |-> 0]
NoPayload == [id |-> 0, design_id |-> 0]
NoSignature == <<>>
NoHeader == [scheme |-> "", rest |-> 0]
Bearer(token) == [scheme |-> "Bearer ", rest |-> token]

IdleReq ==
    [pc |-> "idle", op |-> "none", cookie |-> 0, authorization |-> NoHeader, id |-> 0,
     name |-> Unset, session |-> NoSession, now |-> 0, user |-> NoUser, gone |-> FALSE,
     count |-> 0, ids_to_delete |-> {}, wc_token |-> 0, thumbnail |-> "none",
     wc_session |-> NoWooSession, thumbnail_path |-> 0, payload |-> NoPayload,
     signature |-> NoSignature, page |-> 0, limit |-> 0, designs |-> {}, pages |-> 0,
     status |-> 0, body |-> 0, n |-> 0]

InitServer ==
    /\ hand_instance = 0
    /\ hands = 0
    /\ frame = <<>>
    /\ calls = <<>>
    /\ stroke = NoStroke
    /\ db = EmptyDb
    /\ req = [c \in Clients |-> IdleReq]

SetReq(c, r) == req' = [req EXCEPT ![c] = r]

\* the handler of client c returns or raises: the response
Respond(c, status, body) ==
    SetReq(c, [req[c] EXCEPT !.pc = "done", !.status = status, !.body = body])

\* the credentials a client may send: none, or a token the service has handed out,
\* as the session_token cookie or as a Bearer Authorization header
Credentials ==
    {[cookie |-> 0, authorization |-> NoHeader]}
    \cup {[cookie |-> k, authorization |-> NoHeader] : k \in 1..db.tokens}
    \cup {[cookie |-> 0, authorization |-> Bearer(k)] : k \in 1..db.tokens}

----------------------------------------------------------------------------
(* Authentication, lines 241-300 and 305-390 *)

\* process_session, lines 305-332, for the account of the one person who signs in:
\* the service returns the e-mail and a fresh session_token, and the user of the
\* e-mail is looked up
LoginStart(c, logins) ==
    /\ req[c].pc \in {"idle", "done"}
    /\ db.tokens < logins
    /\ LET session_token == db.tokens + 1
           existing_user == {u \in db.users : u.email = "ann"}
       IN  /\ db' = [db EXCEPT !.tokens = session_token]
           /\ SetReq(c, [IdleReq EXCEPT
                            !.pc = "login_user", !.op = "login",
                            !.session = [NoSession EXCEPT !.session_token = session_token],
                            !.user = IF existing_user = {} THEN NoUser
                                     ELSE CHOOSE u \in existing_user : TRUE,
                            !.n = req[c].n])
    /\ UNCHANGED <<hand_instance, hands, frame, calls, stroke>>

\* lines 334-364: the user found is updated (its name and picture, not kept here), or
\* a new user is inserted with the role admin; the session document is built
LoginUser(c) ==
    /\ req[c].pc = "login_user"
    /\ LET existing_user == req[c].user
           user_id == IF existing_user # NoUser THEN existing_user.user_id ELSE db.ids + 1
           new_user == [user_id |-> user_id, email |-> "ann", role |-> "admin",
                        username |-> Unset]
           session_doc == [user_id |-> user_id,
                           session_token |-> req[c].session.session_token,
                           expires_at |-> db.day + SESSION_EXPIRY_DAYS]
       IN  /\ db' = IF existing_user # NoUser THEN db
                    ELSE [db EXCEPT !.ids = user_id, !.users = @ \cup {new_user}]
           /\ SetReq(c, [req[c] EXCEPT !.pc = "login_delete", !.session = session_doc])
    /\ UNCHANGED <<hand_instance, hands, frame, calls, stroke>>

\* line 369: delete_many({"user_id": user_id})
LoginDelete(c) ==
    /\ req[c].pc = "login_delete"
    /\ db' = [db EXCEPT !.user_sessions = {x \in @ : x.user_id # req[c].session.user_id}]
    /\ SetReq(c, [req[c] EXCEPT !.pc = "login_insert"])
    /\ UNCHANGED <<hand_instance, hands, frame, calls, stroke>>

\* line 370: insert_one(session_doc)
LoginInsert(c) ==
    /\ req[c].pc = "login_insert"
    /\ db' = [db EXCEPT !.user_sessions = @ \cup {req[c].session}]
    /\ SetReq(c, [req[c] EXCEPT !.pc = "login_return"])
    /\ UNCHANGED <<hand_instance, hands, frame, calls, stroke>>

\* lines 372-390: the cookie is set, the user is read again and returned
LoginReturn(c) ==
    /\ req[c].pc = "login_return"
    /\ LET user_doc == {u \in db.users : u.user_id = req[c].session.user_id}
       IN  SetReq(c, [req[c] EXCEPT !.pc = "done", !.status = 200,
                                    !.body = req[c].session.session_token,
                                    !.user = CHOOSE u \in user_doc : TRUE])
    /\ UNCHANGED <<hand_instance, hands, frame, calls, stroke, db>>

\* the header first, then the cookie
get_session_token_header_first(session_token, authorization) ==
    IF authorization.scheme = "Bearer " /\ authorization.rest # 0 THEN authorization.rest
    ELSE session_token

\* get_session_token_from_request, lines 241-255: the cookie first, then the header
get_session_token_from_request(session_token, authorization) ==
    IF session_token # 0 THEN session_token
    ELSE IF authorization.scheme = "Bearer " THEN authorization.rest
    ELSE 0

\* the step a request takes once the admin gate has let it through
Handler(op) ==
    CASE op = "create" -> "create_insert"
      [] op = "delete" -> "delete_one"
      [] op = "detail" -> "detail_find"
      [] op = "export" -> "export_find"
      [] op = "mark" -> "mark_update"
      [] op = "list" -> "list_find"

\* get_current_user, lines 262-269, and require_admin, lines 294-295 for a request
\* without a session
AuthSession(c) ==
    /\ req[c].pc = "auth_session"
    /\ LET token == get_session_token_from_request(req[c].cookie, req[c].authorization)
           found == {x \in db.user_sessions : x.session_token = token}
       IN  IF token = 0 \/ found = {}
           THEN Respond(c, 401, 0)
           ELSE SetReq(c, [req[c] EXCEPT !.pc = "auth_user",
                                         !.session = CHOOSE x \in found : TRUE])
    /\ UNCHANGED <<hand_instance, hands, frame, calls, stroke, db>>

\* get_current_user, lines 271-284, and require_admin, lines 292-300; now is the
\* reading of datetime.now of line 278
AuthUser(c) ==
    /\ req[c].pc = "auth_user"
    /\ LET user == {u \in db.users : u.user_id = req[c].session.user_id}
           now == db.day
       IN  IF req[c].session.expires_at < now \/ user = {}
           THEN SetReq(c, [req[c] EXCEPT !.pc = "done", !.status = 401, !.now = now])
           ELSE IF (CHOOSE u \in user : TRUE).role # "admin"
           THEN SetReq(c, [req[c] EXCEPT !.pc = "done", !.status = 403, !.now = now])
           ELSE SetReq(c, [req[c] EXCEPT !.pc = Handler(req[c].op), !.now = now,
                                         !.user = CHOOSE u \in user : TRUE])
    /\ UNCHANGED <<hand_instance, hands, frame, calls, stroke, db>>

----------------------------------------------------------------------------
(* Template endpoints, lines 727-786 and 1000-1017.  A stored template is  *)
(* its id and its name; the name is Null after an update that set it so.   *)

StoredIds == {t.id : t \in db.templates}
Stored(id) == {t \in db.templates : t.id = id}

\* the first step of the handler of each endpoint: create and delete depend on
\* require_admin
FirstStep(op) ==
    CASE op \in {"create", "delete"} -> "auth_session"
      [] op = "get" -> "get"
      [] op = "update" -> "update_find"
      [] op = "download" -> "download"

\* the request bodies FastAPI accepts: TemplateCreate needs a name, TemplateUpdate
\* takes a name, null, or no name at all
BodyNames(op) ==
    CASE op = "create" -> {"A"}
      [] op = "update" -> {"B", Null, Unset}
      [] OTHER -> {Unset}

\* response_model=Template: a stored template whose name is null fails the
\* validation of the response
ValidTemplate(t) == t.name # Null

\* a client sends a request to a template endpoint, for a new template or for the id
\* some create has returned; the endpoints that do not read the credentials get none
Send(c) ==
    /\ req[c].pc \in {"idle", "done"}
    /\ req[c].n < MaxRequests
    /\ \E op \in {"create", "get", "update", "download", "delete"} :
       \E cred \in IF op \in {"create", "delete"} THEN Credentials
                   ELSE {[cookie |-> 0, authorization |-> NoHeader]} :
       \E id \in IF op = "create" THEN {0} ELSE db.created :
       \E name \in BodyNames(op) :
          SetReq(c, [IdleReq EXCEPT
                       !.pc = FirstStep(op), !.op = op, !.cookie = cred.cookie,
                       !.authorization = cred.authorization, !.id = id, !.name = name,
                       !.gone = (op # "create" /\ id \notin StoredIds),
                       !.n = req[c].n + 1])
    /\ UNCHANGED <<hand_instance, hands, frame, calls, stroke, db>>

\* create_template, lines 729-740
CreateInsert(c) ==
    /\ req[c].pc = "create_insert"
    /\ LET id == db.ids + 1
       IN  /\ db' = [db EXCEPT !.ids = id, !.created = @ \cup {id},
                               !.templates = @ \cup {[id |-> id, name |-> req[c].name]}]
           /\ Respond(c, 200, id)
    /\ UNCHANGED <<hand_instance, hands, frame, calls, stroke>>

\* get_template, lines 753-761
GetTemplate(c) ==
    /\ req[c].pc = "get"
    /\ LET template == Stored(req[c].id)
       IN  IF template = {} THEN Respond(c, 404, 0)
           ELSE IF ~ValidTemplate(CHOOSE t \in template : TRUE) THEN Respond(c, 500, 0)
           ELSE Respond(c, 200, req[c].id)
    /\ UNCHANGED <<hand_instance, hands, frame, calls, stroke, db>>

\* update_template, lines 765-767
UpdateFind(c) ==
    /\ req[c].pc = "update_find"
    /\ IF Stored(req[c].id) = {} THEN Respond(c, 404, 0)
       ELSE SetReq(c, [req[c] EXCEPT !.pc = "update_set"])
    /\ UNCHANGED <<hand_instance, hands, frame, calls, stroke, db>>

\* update_template, lines 769-772: the fields that are set, null included, are written
UpdateSet(c) ==
    /\ req[c].pc = "update_set"
    /\ db' = [db EXCEPT
                !.templates = {IF t.id = req[c].id /\ req[c].name # Unset
                               THEN [t EXCEPT !.name = req[c].name] ELSE t : t \in @}]
    /\ SetReq(c, [req[c] EXCEPT !.pc = "update_fetch"])
    /\ UNCHANGED <<hand_instance, hands, frame, calls, stroke>>

\* update_template, lines 774-779: updated.get raises when the template is gone
UpdateFetch(c) ==
    /\ req[c].pc = "update_fetch"
    /\ LET updated == Stored(req[c].id)
       IN  IF updated = {} THEN Respond(c, 500, 0)
           ELSE IF ~ValidTemplate(CHOOSE t \in updated : TRUE) THEN Respond(c, 500, 0)
           ELSE Respond(c, 200, req[c].id)
    /\ UNCHANGED <<hand_instance, hands, frame, calls, stroke, db>>

\* download_template, lines 1001-1017
DownloadTemplate(c) ==
    /\ req[c].pc = "download"
    /\ IF Stored(req[c].id) = {} THEN Respond(c, 404, 0)
       ELSE Respond(c, 200, req[c].id)
    /\ UNCHANGED <<hand_instance, hands, frame, calls, stroke, db>>

\* delete_template, lines 783-786
DeleteOne(c) ==
    /\ req[c].pc = "delete_one"
    /\ db' = [db EXCEPT !.templates = @ \ Stored(req[c].id)]
    /\ IF Stored(req[c].id) = {} THEN Respond(c, 404, 0)
       ELSE Respond(c, 200, 0)
    /\ UNCHANGED <<hand_instance, hands, frame, calls, stroke>>

NextTemplates ==
    \E c \in Clients :
        \/ LoginStart(c, MaxLogins)
        \/ LoginUser(c)
        \/ LoginDelete(c)
        \/ LoginInsert(c)
        \/ LoginReturn(c)
        \/ Send(c)
        \/ AuthSession(c)
        \/ AuthUser(c)
        \/ CreateInsert(c)
        \/ GetTemplate(c)
        \/ UpdateFind(c)
        \/ UpdateSet(c)
        \/ UpdateFetch(c)
        \/ DownloadTemplate(c)
        \/ DeleteOne(c)
SpecTemplates == InitServer /\ [][NextTemplates]_vars

----------------------------------------------------------------------------
(* C18: POST /api/templates with a valid body, sent as the test sends it,  *)
(* with no session cookie and no Authorization header, returns 200 and a   *)
(* stored template whose response holds an id.                             *)

WithoutCredentials(r) == r.cookie = 0 /\ r.authorization = NoHeader

C18_CreateWithoutSession ==
    \A c \in DOMAIN req :
        (req[c].pc = "done" /\ req[c].op = "create" /\ WithoutCredentials(req[c])) =>
            (req[c].status = 200 /\ req[c].body \in db.created)

----------------------------------------------------------------------------
(* C19: over any sequence of create, get, update, download and delete, the *)
(* id a create returned is readable, get, update and download returning    *)
(* 200, until its delete succeeds; after that delete every get, update,    *)
(* download or second delete of the id returns 404.                        *)

C19_TemplateLifecycle ==
    \A c \in DOMAIN req :
        (req[c].pc = "done" /\ req[c].id \in db.created) =>
            /\ (req[c].op \in {"get", "update", "download"} /\ req[c].id \in StoredIds)
                  => req[c].status = 200
            /\ (req[c].op \in {"get", "update", "download", "delete"} /\ req[c].gone)
                  => req[c].status = 404

----------------------------------------------------------------------------
(* History endpoints, lines 960-991.  An entry of db.history is its id,    *)
(* its templateId and its timestamp, the reading of the clock when the     *)
(* entry was built; a later entry has a later timestamp.                   *)

HistoryTemplates == {1, 2}

HistoryOf(templateId) == {h \in db.history : h.templateId = templateId}

\* find(...).sort("timestamp", 1).limit(n): the n entries with the least timestamps
Oldest(entries, n) ==
    {h \in entries : Cardinality({g \in entries : g.timestamp < h.timestamp}) < n}

\* the ids of the entries saved for a template among the first n saved
SavedOf(templateId, n) == {k \in 1..n : db.log[k] = templateId}

\* save_history, lines 962-970: a request arrives, the entry is built and inserted
SaveInsert(c) ==
    /\ req[c].pc = "idle"
    /\ db.clock < MaxSaves
    /\ \E templateId \in {t \in HistoryTemplates :
                            t = 1 \/ Cardinality(SavedOf(t, db.clock)) < MaxOtherSaves} :
          LET entry == [id |-> db.clock + 1, templateId |-> templateId,
                        timestamp |-> db.clock + 1]
          IN  /\ db' = [db EXCEPT !.clock = @ + 1, !.history = @ \cup {entry},
                                  !.log = Append(@, templateId)]
              /\ SetReq(c, [IdleReq EXCEPT !.pc = "save_count", !.op = "save",
                                          !.id = templateId, !.body = entry.id])
    /\ UNCHANGED <<hand_instance, hands, frame, calls, stroke>>

\* the save_history call of client c returns {"id": entry.id}; the client takes the
\* response and is free for its next request
SaveReturn(c) == SetReq(c, IdleReq)

\* lines 972-973 and 978: count_documents, and the return when count <= 50
SaveCount(c) ==
    /\ req[c].pc = "save_count"
    /\ LET count == Cardinality(HistoryOf(req[c].id))
       IN  IF count > HistoryLimit
           THEN SetReq(c, [req[c] EXCEPT !.pc = "save_find", !.count = count])
           ELSE SaveReturn(c)
    /\ UNCHANGED <<hand_instance, hands, frame, calls, stroke, db>>

\* lines 974-975: the count - 50 oldest entries of the template
SaveFind(c) ==
    /\ req[c].pc = "save_find"
    /\ SetReq(c, [req[c] EXCEPT
                    !.pc = "save_delete",
                    !.ids_to_delete =
                        {h.id : h \in Oldest(HistoryOf(req[c].id),
                                             req[c].count - HistoryLimit)}])
    /\ UNCHANGED <<hand_instance, hands, frame, calls, stroke, db>>

\* lines 976 and 978: delete_many by id, and the return
SaveDelete(c) ==
    /\ req[c].pc = "save_delete"
    /\ db' = [db EXCEPT !.history = {h \in @ : h.id \notin req[c].ids_to_delete}]
    /\ SaveReturn(c)
    /\ UNCHANGED <<hand_instance, hands, frame, calls, stroke>>

NextHistory ==
    \E c \in Clients :
        \/ SaveInsert(c)
        \/ SaveCount(c)
        \/ SaveFind(c)
        \/ SaveDelete(c)
SpecHistory == InitServer /\ [][NextHistory]_vars

----------------------------------------------------------------------------
(* C20: after every completed save_history call, calls for the same        *)
(* template that interleave included, the stored history of the template   *)
(* holds at most 50 entries, the most recently saved ones of the template, *)
(* and the call removes no entry of another template.                      *)

\* ids holds the most recently saved entries of the template, all of them when no
\* more than 50 were saved
MostRecent(ids, saved) ==
    /\ ids \subseteq saved
    /\ \A k \in saved \ ids : \A j \in ids : k < j
    /\ Cardinality(saved) <= 50 => ids = saved

\* the step is the return of a save_history call for templateId
Completes(templateId) ==
    \E c \in DOMAIN req :
        /\ req[c].pc \in {"save_count", "save_delete"}
        /\ req[c].id = templateId
        /\ req'[c].pc = "idle"

StoredIdsOf(history, templateId) == {h.id : h \in {g \in history : g.templateId = templateId}}

C20_HistoryRetention ==
    [][\A templateId \in HistoryTemplates :
          Completes(templateId) =>
              /\ Cardinality(StoredIdsOf(db'.history, templateId)) <= 50
              /\ MostRecent(StoredIdsOf(db'.history, templateId),
                            SavedOf(templateId, db.clock))
              /\ \A other \in HistoryTemplates \ {templateId} :
                    StoredIdsOf(db'.history, other) = StoredIdsOf(db.history, other)]_vars

----------------------------------------------------------------------------
(* The admin gate on its own, lines 241-300 and 632-644: requests to       *)
(* GET /admin/designs/{id} against a store of users and sessions, while    *)
(* the days pass.                                                          *)

OneClient == {1}

MaxDay == 8            \* the last day the clock reaches

Basic(token) == [scheme |-> "Basic ", rest |-> token]

\* the users and sessions a store may hold: an admin, a customer, and sessions made
\* on day 0 for them and for a user whose record is gone
AuthTokens == 1..3
AuthUsers ==
    {[user_id |-> 1, email |-> "ann", role |-> "admin", username |-> Unset],
     [user_id |-> 2, email |-> "bob", role |-> "customer", username |-> Unset]}
AuthSessions ==
    {[user_id |-> k, session_token |-> k, expires_at |-> SESSION_EXPIRY_DAYS] :
        k \in AuthTokens}

\* a cookie or none, with an Authorization header or none
AuthCredentials ==
    {[cookie |-> k, authorization |-> h] :
        k \in {0} \cup AuthTokens,
        h \in {NoHeader} \cup {Bearer(t) : t \in AuthTokens} \cup {Basic(t) : t \in AuthTokens}}

InitAuth ==
    /\ hand_instance = 0
    /\ hands = 0
    /\ frame = <<>>
    /\ calls = <<>>
    /\ stroke = NoStroke
    /\ \E users \in SUBSET AuthUsers : \E user_sessions \in SUBSET AuthSessions :
          db = [EmptyDb EXCEPT !.users = users, !.user_sessions = user_sessions]
    /\ req = [c \in Clients |-> IdleReq]

\* a day passes
Tick(last) ==
    /\ db.day < last
    /\ db' = [db EXCEPT !.day = @ + 1]
    /\ UNCHANGED <<hand_instance, hands, frame, calls, stroke, req>>

\* a client asks for the detail of a design
SendDetail(c) ==
    /\ req[c].pc \in {"idle", "done"}
    /\ req[c].n < MaxRequests
    /\ \E cred \in AuthCredentials :
          SetReq(c, [IdleReq EXCEPT
                       !.pc = "auth_session", !.op = "detail", !.cookie = cred.cookie,
                       !.authorization = cred.authorization, !.id = 1,
                       !.n = req[c].n + 1])
    /\ UNCHANGED <<hand_instance, hands, frame, calls, stroke, db>>

\* get_design_detail, lines 641-644
DesignDetail(c) ==
    /\ req[c].pc = "detail_find"
    /\ IF {d \in db.customer_designs : d.id = req[c].id} = {} THEN Respond(c, 404, 0)
       ELSE Respond(c, 200, req[c].id)
    /\ UNCHANGED <<hand_instance, hands, frame, calls, stroke, db>>

NextAuth ==
    \/ Tick(MaxDay)
    \/ \E c \in OneClient :
          \/ SendDetail(c)
          \/ AuthSession(c)
          \/ AuthUser(c)
          \/ DesignDetail(c)
SpecAuth == InitAuth /\ [][NextAuth]_vars

----------------------------------------------------------------------------
(* C21: require_admin returns a user only when the presented token, the    *)
(* cookie first and else the Bearer header, matches a stored session whose *)
(* expires_at is not in the past and whose user exists with role admin;    *)
(* with no token, an unknown token, an expired session or a missing user   *)
(* it raises 401, and with a user that is no admin it raises 403.          *)

\* the token a request presents
Presented(r) ==
    IF r.cookie # 0 THEN r.cookie
    ELSE IF r.authorization.scheme = "Bearer " THEN r.authorization.rest
    ELSE 0

SessionsOf(token) == {x \in db.user_sessions : x.session_token = token}
UsersOf(token) == {u \in db.users : \E x \in SessionsOf(token) : u.user_id = x.user_id}

\* the token is one, of a stored session that had not expired when the gate read the
\* clock, of a user that exists
Live(r) ==
    /\ Presented(r) # 0
    /\ SessionsOf(Presented(r)) # {}
    /\ \A x \in SessionsOf(Presented(r)) : x.expires_at >= r.now
    /\ UsersOf(Presented(r)) # {}

IsAdmin(r) == \A u \in UsersOf(Presented(r)) : u.role = "admin"

C21_AdminGate ==
    \A c \in DOMAIN req :
        (req[c].op = "detail" /\ req[c].pc \in {"detail_find", "done"}) =>
            /\ req[c].user # NoUser <=> (Live(req[c]) /\ IsAdmin(req[c]))
            /\ req[c].user # NoUser => req[c].user \in UsersOf(Presented(req[c]))
            /\ ~Live(req[c]) => (req[c].pc = "done" /\ req[c].status = 401)
            /\ (Live(req[c]) /\ ~IsAdmin(req[c])) =>
                  (req[c].pc = "done" /\ req[c].status = 403)

\* the gate lets a request through on its cookie although its Bearer header names the
\* session of another user
C21_Witness ==
    \E c \in DOMAIN req :
        /\ req[c].op = "detail"
        /\ req[c].user # NoUser
        /\ req[c].cookie # 0
        /\ req[c].authorization.scheme = "Bearer "
        /\ req[c].authorization.rest # req[c].cookie

\* the last day of a session: the gate still lets the request through
C21_LastDay ==
    \E c \in DOMAIN req :
        req[c].op = "detail" /\ req[c].user # NoUser /\ req[c].now = SESSION_EXPIRY_DAYS

\* the gate turns an expired session away
C21_Expired ==
    \E c \in DOMAIN req :
        /\ req[c].op = "detail" /\ req[c].status = 401
        /\ UsersOf(Presented(req[c])) # {}
        /\ req[c].now > SESSION_EXPIRY_DAYS

----------------------------------------------------------------------------
(* WooCommerce endpoints, lines 435-556.  A session of wc_sessions is its  *)
(* id, its session_token, its product_id and its expiresAt; a design of    *)
(* customer_designs is its id, the id of its session, its product_id, its  *)
(* status, its order id and its export marks.                              *)

MaxWooSessions == 1    \* editing sessions the shop opens
MaxCartDay == 3        \* the last day the clock reaches while the shop is watched

WooSessionDays == 1    \* timedelta(hours=24)

\* the products of the shop
WooProducts == {7, 8}

\* thumbnail_base64 of a request: left out, an image, or text that is no base64
Thumbnails == {"none", "png", "broken"}

\* expired from the day of expires_at on
ExpiredAlready(expires_at, now) == expires_at <= now

\* expires_at < datetime.now(timezone.utc), lines 487 and 473
Expired(expires_at, now) == expires_at < now

\* create_woocommerce_session, lines 435-461: the shop opens an editing session
CreateWooSession ==
    /\ Cardinality(db.wc_sessions) < MaxWooSessions
    /\ \E product_id \in WooProducts :
          LET session == [id |-> db.ids + 1, session_token |-> db.ids + 2,
                          product_id |-> product_id,
                          expiresAt |-> db.day + WooSessionDays]
          IN  db' = [db EXCEPT !.ids = @ + 2, !.wc_sessions = @ \cup {session}]
    /\ UNCHANGED <<hand_instance, hands, frame, calls, stroke, req>>

\* add_to_cart, lines 478-503: a request arrives with the token of a session or with
\* a token of no session (-1); the session is looked up and checked, and the
\* thumbnail is written, a failure of the decoding being logged and passed over
AddToCartFind(c) ==
    /\ req[c].pc \in {"idle", "done"}
    /\ req[c].n < MaxRequests
    /\ \E session_token \in {x.session_token : x \in db.wc_sessions} \cup {-1} :
       \E thumbnail \in Thumbnails :
          LET found == {x \in db.wc_sessions : x.session_token = session_token}
              session == CHOOSE x \in found : TRUE
              now == db.day
              r == [IdleReq EXCEPT !.op = "cart", !.wc_token = session_token,
                                   !.thumbnail = thumbnail, !.now = now,
                                   !.n = req[c].n + 1]
          IN  IF found = {}
              THEN /\ SetReq(c, [r EXCEPT !.pc = "done", !.status = 404])
                   /\ UNCHANGED db
              ELSE IF Expired(session.expiresAt, now)
              THEN /\ SetReq(c, [r EXCEPT !.pc = "done", !.status = 410,
                                          !.wc_session = session])
                   /\ UNCHANGED db
              ELSE IF thumbnail = "png"
              THEN /\ db' = [db EXCEPT !.ids = @ + 1,
                                      !.files = @ \cup {<<session.id, db.ids + 1>>}]
                   /\ SetReq(c, [r EXCEPT !.pc = "cart_insert", !.wc_session = session,
                                          !.thumbnail_path = db.ids + 1])
              ELSE /\ SetReq(c, [r EXCEPT !.pc = "cart_insert", !.wc_session = session])
                   /\ UNCHANGED db
    /\ UNCHANGED <<hand_instance, hands, frame, calls, stroke>>

\* add_to_cart, lines 505-556: the design is inserted; the call of the WooCommerce
\* API changes nothing here and its failure is logged and passed over
AddToCartInsert(c) ==
    /\ req[c].pc = "cart_insert"
    /\ LET design == [id |-> db.ids + 1, session_id |-> req[c].wc_session.id,
                      product_id |-> req[c].wc_session.product_id,
                      status |-> "added_to_cart", wc_order_id |-> 0,
                      exported |-> FALSE, exportedBy |-> Null]
       IN  /\ db' = [db EXCEPT !.ids = @ + 1, !.customer_designs = @ \cup {design}]
           /\ Respond(c, 200, design.id)
    /\ UNCHANGED <<hand_instance, hands, frame, calls, stroke>>

\* get_woocommerce_session, lines 463-476
GetWooSession(c) ==
    /\ req[c].pc \in {"idle", "done"}
    /\ req[c].n < MaxRequests
    /\ \E session_token \in {x.session_token : x \in db.wc_sessions} \cup {-1} :
          LET found == {x \in db.wc_sessions : x.session_token = session_token}
              r == [IdleReq EXCEPT !.pc = "done", !.op = "wc_session",
                                   !.wc_token = session_token, !.now = db.day,
                                   !.n = req[c].n + 1]
          IN  IF found = {} THEN SetReq(c, [r EXCEPT !.status = 404])
              ELSE IF Expired((CHOOSE x \in found : TRUE).expiresAt, db.day)
              THEN SetReq(c, [r EXCEPT !.status = 410])
              ELSE SetReq(c, [r EXCEPT !.status = 200,
                                       !.wc_session = CHOOSE x \in found : TRUE])
    /\ UNCHANGED <<hand_instance, hands, frame, calls, stroke, db>>

NextCart ==
    \/ Tick(MaxCartDay)
    \/ CreateWooSession
    \/ \E c \in OneClient :
          \/ AddToCartFind(c)
          \/ AddToCartInsert(c)
          \/ GetWooSession(c)
SpecCart == InitServer /\ [][NextCart]_vars

----------------------------------------------------------------------------
(* C28: an add_to_cart request whose session_token is unknown returns 404  *)
(* and one whose session has expiresAt in the past returns 410, and in     *)
(* both cases no design is inserted and no thumbnail is written; only an   *)
(* unexpired session produces a design, with status added_to_cart and the  *)
(* product_id of the session.                                              *)

\* the step is the arrival of an add_to_cart request of client c
CartArrives(c) ==
    /\ req[c].pc \in {"idle", "done"}
    /\ req'[c] # req[c]
    /\ req'[c].op = "cart"

\* the stored sessions of a token
WooSessionsOf(token) == {x \in db.wc_sessions : x.session_token = token}

StoreKept ==
    /\ db'.customer_designs = db.customer_designs
    /\ db'.files = db.files

C28_CartNeedsLiveSession ==
    [][/\ \A c \in DOMAIN req :
            LET known == WooSessionsOf(req'[c].wc_token)
            IN  /\ (CartArrives(c) /\ known = {}) =>
                      (req'[c].pc = "done" /\ req'[c].status = 404 /\ StoreKept)
                /\ (CartArrives(c) /\ \E x \in known : x.expiresAt < db.day) =>
                      (req'[c].pc = "done" /\ req'[c].status = 410 /\ StoreKept)
                /\ (CartArrives(c) /\ \E x \in known : x.expiresAt >= db.day) =>
                      req'[c].pc = "cart_insert"
                /\ (req[c].pc = "cart_insert" /\ req'[c].pc = "done") =>
                      /\ req'[c].status = 200
                      /\ \E d \in db'.customer_designs :
                            /\ db'.customer_designs = db.customer_designs \cup {d}
                            /\ d \notin db.customer_designs
                            /\ d.id = req'[c].body
                            /\ d.status = "added_to_cart"
                            /\ \E x \in WooSessionsOf(req[c].wc_token) :
                                  d.product_id = x.product_id /\ d.session_id = x.id
       /\ db'.customer_designs # db.customer_designs =>
             \E c \in DOMAIN req :
                 /\ req[c].pc = "cart_insert"
                 /\ \E x \in WooSessionsOf(req[c].wc_token) : x.expiresAt >= req[c].now
       /\ db'.files # db.files =>
             \E c \in DOMAIN req :
                 /\ CartArrives(c)
                 /\ \E x \in WooSessionsOf(req'[c].wc_token) : x.expiresAt >= db.day]_vars

\* a request with a thumbnail is answered 410 for a session that produced a design with
\* a thumbnail before it expired
C28_Witness ==
    \E c \in DOMAIN req :
        /\ req[c].op = "cart" /\ req[c].pc = "done" /\ req[c].status = 410
        /\ req[c].thumbnail = "png"
        /\ \E d \in db.customer_designs :
              d.session_id = req[c].wc_session.id /\ d.status = "added_to_cart"
        /\ Cardinality(db.files) = 1

\* a request with a thumbnail and a token of no session is answered 404
C28_Unknown ==
    \E c \in DOMAIN req :
        /\ req[c].op = "cart" /\ req[c].status = 404 /\ req[c].thumbnail = "png"
        /\ db.wc_sessions # {}

----------------------------------------------------------------------------
(* Logins on their own, lines 305-390: the person signs in several times,  *)
(* from two browsers, and the steps of two process_session calls           *)
(* interleave at their awaits.                                             *)

MaxSignIns == 3        \* logins of the person in all

NextLogin ==
    \E c \in Clients :
        \/ LoginStart(c, MaxSignIns)
        \/ LoginUser(c)
        \/ LoginDelete(c)
        \/ LoginInsert(c)
        \/ LoginReturn(c)
SpecLogin == InitServer /\ [][NextLogin]_vars

----------------------------------------------------------------------------
(* C25: after every completed process_session call for a user, two logins *)
(* of the user whose steps interleave included, user_sessions holds        *)
(* exactly one session of the user, the one the latest login created, and  *)
(* no earlier token of the user authenticates.                             *)

\* no process_session call is under way
NoLoginUnderWay ==
    \A c \in DOMAIN req : req[c].op = "login" => req[c].pc = "done"

\* the tokens the logins that completed have returned
ReturnedTokens ==
    {req[c].body : c \in {k \in DOMAIN req : req[k].op = "login" /\ req[k].pc = "done"}}

\* get_current_user finds a user for the token
Authenticates(token) ==
    \E x \in db.user_sessions :
        /\ x.session_token = token
        /\ x.expires_at >= db.day
        /\ \E u \in db.users : u.user_id = x.user_id

C25_SingleSession ==
    (NoLoginUnderWay /\ ReturnedTokens # {}) =>
        \A u \in db.users :
            LET sessions == {x \in db.user_sessions : x.user_id = u.user_id}
            IN  /\ Cardinality(sessions) <= 1
                /\ \A x \in sessions : \A t \in 1..db.tokens :
                      (t # x.session_token /\ t \in ReturnedTokens) => ~Authenticates(t)

----------------------------------------------------------------------------
(* C26: generate_handwriting_svg_simple strips each line of the text and   *)
(* removes the blank lines before the layout: for a text with K non-blank  *)
(* lines among any number of blank ones the returned height is             *)
(* 60 * (K + 1), there are K paths, and the blank lines of the text        *)
(* reserve no vertical space, the j-th path being laid out with the cursor *)
(* at -45 - 60 * (j - 1).                                                  *)

\* position i holds the first character of its line of the text that is no whitespace
FirstInk(text, i) ==
    /\ text[i] \notin Whitespace \cup {"\n"}
    /\ \A j \in 1..(i - 1) :
          (\A m \in j..(i - 1) : text[m] # "\n") => text[j] \in Whitespace

\* the number of lines of the text that are not blank
NonBlank(text) == Cardinality({i \in 1..Len(text) : FirstInk(text, i)})

C26_BlankLinesOfTextDropped ==
    \A t \in DOMAIN frame :
        (frame[t].entry = "simple" /\ Returned(t)) =>
            LET f == frame[t]
                K == NonBlank(f.text)
            IN  /\ K >= 1
                /\ f.result.height = 60 * (K + 1)
                /\ Len(f.result.paths) = K
                /\ Len(f.lines) = K
                /\ \A j \in 1..K :
                      /\ f.lines[j] # <<>>
                      /\ f.lines[j][1] \notin Whitespace
                      /\ f.lines[j][Len(f.lines[j])] \notin Whitespace
                      /\ f.result.paths[j].path
                            = PathString(LayOut(f.strokes[j], <<0, (-45 - 60 * (j - 1)) * Unit>>,
                                                f.view_width))

\* a text of two lines with a blank one between them: the height is 180 and the second
\* path is laid out one line below the first, not two
C26_Witness ==
    \E t \in DOMAIN frame :
        /\ Returned(t)
        /\ frame[t].entry = "simple"
        /\ frame[t].text = <<"a", "\n", "\n", "a">>
        /\ frame[t].result.height = 180
        /\ Len(frame[t].result.paths) = 2
        /\ frame[t].result.paths[2].path
              = PathString(LayOut(frame[t].strokes[2], <<0, -105 * Unit>>,
                                  frame[t].view_width))
        /\ frame[t].result.paths[2].path
              # PathString(LayOut(frame[t].strokes[2], <<0, -165 * Unit>>,
                                  frame[t].view_width))

----------------------------------------------------------------------------
(* The order webhook and the admin endpoints of the designs, lines         *)
(* 558-702.  Client 1 is the browser of the admin, client 2 the shop and   *)
(* its customer.                                                           *)

OtherClient == {2}

\* WOOCOMMERCE_WEBHOOK_SECRET, line 43: not configured, or a secret
WebhookSecrets == {"", "s3cret"}

\* the keys a sender may sign with: the secret, or a guess
SignatureKeys == {"s3cret", "guess"}

\* base64 of the HMAC-SHA256 of the message under the key: a value that tells the key
\* and the message
Hmac(key, message) == <<key, message>>

\* a user record that was not made by process_session: it has a username
SeededAdmin == [user_id |-> 1, email |-> "ann", role |-> "admin", username |-> "ann"]

InitDesigns ==
    /\ hand_instance = 0
    /\ hands = 0
    /\ frame = <<>>
    /\ calls = <<>>
    /\ stroke = NoStroke
    /\ \E secret \in WebhookSecrets : \E users \in {{}, {SeededAdmin}} :
          db = [EmptyDb EXCEPT !.WOOCOMMERCE_WEBHOOK_SECRET = secret, !.users = users,
                               !.ids = Cardinality(users)]
    /\ req = [c \in Clients |-> IdleReq]

DesignIds == {d.id : d \in db.customer_designs}

\* handle_order_created, lines 558-600, for an order of one item that names a design
\* or a design that is not stored (-1); the request carries no signature, or the
\* signature of its payload or of another order under one of the keys
HandleOrderCreated(c) ==
    /\ req[c].pc \in {"idle", "done"}
    /\ req[c].n < MaxRequests
    /\ \E design_id \in DesignIds \cup {-1} :
          LET payload == [id |-> 1, design_id |-> design_id]
              WOOCOMMERCE_WEBHOOK_SECRET == db.WOOCOMMERCE_WEBHOOK_SECRET
              expected_sig == Hmac(WOOCOMMERCE_WEBHOOK_SECRET, payload)
          IN  \E x_wc_webhook_signature \in
                    {NoSignature} \cup {Hmac(k, payload) : k \in SignatureKeys}
                    \cup {Hmac(k, [payload EXCEPT !.id = 2]) : k \in SignatureKeys} :
                 LET r == [IdleReq EXCEPT !.pc = "done", !.op = "webhook",
                                          !.payload = payload,
                                          !.signature = x_wc_webhook_signature,
                                          !.n = req[c].n + 1]
                 IN  IF /\ WOOCOMMERCE_WEBHOOK_SECRET # ""
                        /\ x_wc_webhook_signature # NoSignature
                        /\ expected_sig # x_wc_webhook_signature
                     THEN /\ SetReq(c, [r EXCEPT !.status = 401])
                          /\ UNCHANGED db
                     ELSE /\ SetReq(c, [r EXCEPT !.status = 200])
                          /\ db' = [db EXCEPT !.customer_designs =
                                       {IF d.id = design_id
                                        THEN [d EXCEPT !.status = "ordered",
                                                       !.wc_order_id = payload.id]
                                        ELSE d : d \in @}]
    /\ UNCHANGED <<hand_instance, hands, frame, calls, stroke>>

\* the pages and the limits of a listing: limit has an upper bound only
ListPages == {1, 2}
ListLimits == {-1, 0, 1, 20}

\* a request to an admin endpoint of the designs arrives: the export or the mark of a
\* design, stored or not (-1), or a listing
SendAdmin(c) ==
    /\ req[c].pc \in {"idle", "done"}
    /\ req[c].n < MaxRequests
    /\ \E op \in {"export", "mark", "list"} :
       \E cred \in Credentials :
       \E id \in IF op = "list" THEN {0} ELSE DesignIds \cup {-1} :
       \E page \in IF op = "list" THEN ListPages ELSE {0} :
       \E limit \in IF op = "list" THEN ListLimits ELSE {0} :
          SetReq(c, [IdleReq EXCEPT
                       !.pc = "auth_session", !.op = op, !.cookie = cred.cookie,
                       !.authorization = cred.authorization, !.id = id,
                       !.gone = (op # "list" /\ id \notin DesignIds),
                       !.page = page, !.limit = limit, !.n = req[c].n + 1])
    /\ UNCHANGED <<hand_instance, hands, frame, calls, stroke, db>>

\* export_design, lines 656-658
ExportFind(c) ==
    /\ req[c].pc = "export_find"
    /\ IF {d \in db.customer_designs : d.id = req[c].id} = {} THEN Respond(c, 404, 0)
       ELSE SetReq(c, [req[c] EXCEPT !.pc = "export_update"])
    /\ UNCHANGED <<hand_instance, hands, frame, calls, stroke, db>>

\* export_design, lines 661-681: user["username"] raises KeyError for a user record
\* without the key, before update_one is called
ExportUpdate(c) ==
    /\ req[c].pc = "export_update"
    /\ IF req[c].user.username = Unset
       THEN /\ Respond(c, 500, 0)
            /\ UNCHANGED db
       ELSE /\ db' = [db EXCEPT !.customer_designs =
                        {IF d.id = req[c].id
                         THEN [d EXCEPT !.exported = TRUE,
                                        !.exportedBy = req[c].user.username]
                         ELSE d : d \in @}]
            /\ Respond(c, 200, req[c].id)
    /\ UNCHANGED <<hand_instance, hands, frame, calls, stroke>>

\* mark_design_exported, lines 684-702
MarkUpdate(c) ==
    /\ req[c].pc = "mark_update"
    /\ IF req[c].user.username = Unset
       THEN /\ Respond(c, 500, 0)
            /\ UNCHANGED db
       ELSE /\ db' = [db EXCEPT !.customer_designs =
                        {IF d.id = req[c].id
                         THEN [d EXCEPT !.exported = TRUE,
                                        !.exportedBy = req[c].user.username,
                                        !.status = "exported"]
                         ELSE d : d \in @}]
            /\ IF req[c].id \notin DesignIds THEN Respond(c, 404, 0)
               ELSE Respond(c, 200, req[c].id)
    /\ UNCHANGED <<hand_instance, hands, frame, calls, stroke>>

\* Python's a // b, b # 0: the floor of the quotient
FloorDiv(a, b) == IF b > 0 THEN a \div b ELSE (0 - a) \div (0 - b)

\* find(query).sort("createdAt", -1).skip(skip).limit(limit): the designs from the
\* latest on, a later design having the greater id
PageOf(designs, skip, limit) ==
    {d \in designs :
        LET later == Cardinality({e \in designs : e.id > d.id})
        IN  later >= skip /\ later < skip + limit}

\* get_all_designs, lines 619-621: the page is read.  With limit = 0 the driver sets no
\* limit and to_list(0) returns all or nothing; with a negative limit skip, limit or
\* to_list raises, or the driver reads the limit as its absolute value
ListFind(c) ==
    /\ req[c].pc = "list_find"
    /\ LET page == req[c].page
           limit == req[c].limit
           skip == (page - 1) * limit
       IN  \E outcome \in {"returns", "other"} :
              IF limit > 0
              THEN SetReq(c, [req[c] EXCEPT
                                !.pc = "list_count",
                                !.designs = PageOf(db.customer_designs, skip, limit)])
              ELSE IF limit = 0
              THEN SetReq(c, [req[c] EXCEPT
                                !.pc = "list_count",
                                !.designs = IF outcome = "returns"
                                            THEN db.customer_designs ELSE {}])
              ELSE IF outcome = "returns" /\ skip >= 0
              THEN SetReq(c, [req[c] EXCEPT
                                !.pc = "list_count",
                                !.designs = PageOf(db.customer_designs, skip, 0 - limit)])
              ELSE Respond(c, 500, 0)
    /\ UNCHANGED <<hand_instance, hands, frame, calls, stroke, db>>

\* get_all_designs, lines 622-630: the count, and the pages; limit = 0 raises
\* ZeroDivisionError
ListCount(c) ==
    /\ req[c].pc = "list_count"
    /\ LET total == Cardinality(db.customer_designs)
           limit == req[c].limit
       IN  IF limit = 0
           THEN SetReq(c, [req[c] EXCEPT !.pc = "done", !.status = 500, !.count = total])
           ELSE SetReq(c, [req[c] EXCEPT
                             !.pc = "done", !.status = 200, !.count = total,
                             !.pages = FloorDiv(total + limit - 1, limit)])
    /\ UNCHANGED <<hand_instance, hands, frame, calls, stroke, db>>

NextDesigns ==
    \/ CreateWooSession
    \/ \E c \in OneClient :
          \/ LoginStart(c, MaxLogins)
          \/ LoginUser(c)
          \/ LoginDelete(c)
          \/ LoginInsert(c)
          \/ LoginReturn(c)
          \/ SendAdmin(c)
          \/ AuthSession(c)
          \/ AuthUser(c)
          \/ ExportFind(c)
          \/ ExportUpdate(c)
          \/ MarkUpdate(c)
          \/ ListFind(c)
          \/ ListCount(c)
    \/ \E c \in OtherClient :
          \/ AddToCartFind(c)
          \/ AddToCartInsert(c)
          \/ HandleOrderCreated(c)
SpecDesigns == InitDesigns /\ [][NextDesigns]_vars

----------------------------------------------------------------------------
(* C22: when a webhook secret is configured, handle_order_created changes  *)
(* the status or the order id of a design only for a request whose         *)
(* X-WC-Webhook-Signature is the HMAC-SHA256 of the payload under the      *)
(* secret; a request with a wrong signature or with no signature header is *)
(* answered 401 and leaves every design unchanged.                         *)

\* the step is a webhook request of client c, handled
WebhookHandled(c) ==
    /\ req'[c] # req[c]
    /\ req'[c].op = "webhook"

C22_WebhookAuthentication ==
    [][\A c \in DOMAIN req :
          (WebhookHandled(c) /\ db.WOOCOMMERCE_WEBHOOK_SECRET # "") =>
              \/ req'[c].signature = <<db.WOOCOMMERCE_WEBHOOK_SECRET, req'[c].payload>>
              \/ /\ req'[c].status = 401
                 /\ db'.customer_designs = db.customer_designs]_vars

----------------------------------------------------------------------------
(* C23: for every existing design and every user that passes require_admin *)
(* with a record as process_session creates it, GET                        *)
(* /admin/designs/{id}/export and POST /admin/designs/{id}/mark-exported   *)
(* complete without error, set exported = True with exportedBy naming the  *)
(* user, and return the success response.                                  *)

C23_AdminExport ==
    \A c \in DOMAIN req :
        (/\ req[c].op \in {"export", "mark"}
         /\ req[c].pc = "done"
         /\ req[c].user # NoUser
         /\ req[c].user.username = Unset
         /\ req[c].id \in {d.id : d \in db.customer_designs}) =>
            /\ req[c].status = 200
            /\ \A d \in db.customer_designs :
                  d.id = req[c].id => (d.exported /\ d.exportedBy # Null)

----------------------------------------------------------------------------
(* C24: over any sequence of add_to_cart, order webhook and mark-exported  *)
(* operations the status of a design is one of pending, added_to_cart,     *)
(* ordered and exported and only moves forward in that order; a design     *)
(* that reached exported never returns to ordered.                         *)

StatusRank(status) ==
    CASE status = "pending" -> 0
      [] status = "added_to_cart" -> 1
      [] status = "ordered" -> 2
      [] status = "exported" -> 3
      [] OTHER -> -1

----------------------------------------------------------------------------
(* C27: for every accepted query of the listing, page >= 1 and             *)
(* limit <= 100, limit = 0 and negative limits included, get_all_designs   *)
(* returns without error, with pages the ceiling of total / limit and at   *)
(* most limit designs.                                                     *)

\* pages is the least integer that is no less than total / limit
IsCeiling(pages, total, limit) ==
    IF limit > 0 THEN pages * limit >= total /\ (pages - 1) * limit < total
    ELSE pages * limit <= total /\ (pages - 1) * limit > total

C27_Pagination ==
    \A c \in DOMAIN req :
        (req[c].op = "list" /\ req[c].pc = "done" /\ req[c].user # NoUser) =>
            /\ req[c].status = 200
            /\ req[c].limit # 0 => IsCeiling(req[c].pages, req[c].count, req[c].limit)
            /\ Cardinality(req[c].designs) <= req[c].limit

\* a listing with a limit of at least 1 does return, with the ceiling and at most
\* limit designs
C27_PositiveLimit ==
    \A c \in DOMAIN req :
        (req[c].op = "list" /\ req[c].pc = "done" /\ req[c].user # NoUser
            /\ req[c].limit >= 1) =>
            /\ req[c].status = 200
            /\ IsCeiling(req[c].pages, req[c].count, req[c].limit)
            /\ Cardinality(req[c].designs) <= req[c].limit

\* a listing with limit = 0 that passed the admin gate is answered 500
C27_ZeroLimit ==
    \E c \in DOMAIN req :
        /\ req[c].op = "list" /\ req[c].pc = "done" /\ req[c].user # NoUser
        /\ req[c].limit = 0
        /\ req[c].status = 500

====
